---- MODULE Spec2Model ----
(***************************************************************************)
(* Model of the Finance-Apps reconciliation scripts.  Every script is a    *)
(* batch run over the rows of the "Transactions" sheet: the loop body is   *)
(* one action (one workbook row per step), the code after the loop (sort,  *)
(* json.dump, report) is a second action.                                  *)
(*                                                                         *)
(* Python strings are sequences of one-character strings, so that `in`,    *)
(* lower(), strip(), slicing and comparison are computed character by      *)
(* character.  Python values that can be None, a number, a string or a     *)
(* datetime are tagged records.  Money is held in pence (1 pound = 100).   *)
(***************************************************************************)
EXTENDS Integers, Sequences, FiniteSets, TLC

VARIABLES script, pc, workbook, categories_in_transactions, nrows, transactions,
          app_category_totals, unmapped, txn_id, files, actuals, report

vars == <<script, pc, workbook, categories_in_transactions, nrows, transactions,
          app_category_totals, unmapped, txn_id, files, actuals, report>>

\* Number of workbook rows a run reads (the sheets hold up to 1199 / 1998).
MaxRows == 2

\* the most records of a plan file, and the most runs of a fixer on it
MaxPlanRecords == 2

MaxRuns == 2

-----------------------------------------------------------------------------
(* Python str                                                              *)

ascii_uppercase == <<"A","B","C","D","E","F","G","H","I","J","K","L","M","N","O","P","Q","R","S","T","U","V","W","X","Y","Z">>

ascii_lowercase == <<"a","b","c","d","e","f","g","h","i","j","k","l","m","n","o","p","q","r","s","t","u","v","w","x","y","z">>

digits == <<"0","1","2","3","4","5","6","7","8","9">>

\* the characters of code 32..95 and of code 97..126, in code order (code 96,
\* the backquote, cannot be written in a string here and occurs in no data)
ascii_32_95 == <<" ","!","\"","#","$","%","&","'","(",")","*","+",",","-",".","/">> \o digits \o <<":",";","<","=",">","?","@">> \o ascii_uppercase \o <<"[","\\","]","^","_">>

ascii_97_126 == ascii_lowercase \o <<"{","|","}","~">>

ord(c) ==
    IF \E i \in 1..Len(ascii_32_95) : ascii_32_95[i] = c
    THEN 31 + (CHOOSE i \in 1..Len(ascii_32_95) : ascii_32_95[i] = c)
    ELSE 96 + (CHOOSE i \in 1..Len(ascii_97_126) : ascii_97_126[i] = c)

char_lower(c) ==
    IF \E i \in 1..26 : ascii_uppercase[i] = c
    THEN ascii_lowercase[CHOOSE i \in 1..26 : ascii_uppercase[i] = c]
    ELSE c

\* s.lower()
str_lower(s) == [i \in 1..Len(s) |-> char_lower(s[i])]

\* sub in s
str_contains(sub, s) ==
    \E i \in 0..(Len(s) - Len(sub)) : SubSeq(s, i + 1, i + Len(sub)) = sub

RECURSIVE str_lstrip(_)
str_lstrip(s) ==
    IF s # <<>> /\ Head(s) = " " THEN str_lstrip(Tail(s)) ELSE s

RECURSIVE str_rstrip(_)
str_rstrip(s) ==
    IF s # <<>> /\ s[Len(s)] = " " THEN str_rstrip(SubSeq(s, 1, Len(s) - 1)) ELSE s

\* s.strip()
str_strip(s) == str_rstrip(str_lstrip(s))

\* s[:n]
str_prefix(s, n) == SubSeq(s, 1, IF Len(s) < n THEN Len(s) ELSE n)

\* a < b on str (lexicographic by character code)
RECURSIVE str_lt(_, _)
str_lt(a, b) ==
    IF b = <<>> THEN FALSE
    ELSE IF a = <<>> THEN TRUE
    ELSE IF Head(a) = Head(b) THEN str_lt(Tail(a), Tail(b))
    ELSE ord(Head(a)) < ord(Head(b))

\* str(n) / f"{n}" for an int n >= 0
RECURSIVE int_str(_)
int_str(n) ==
    IF n < 10 THEN <<digits[n + 1]>>
    ELSE int_str(n \div 10) \o <<digits[(n % 10) + 1]>>

\* f"{n:0w}" : n zero-padded to width w
RECURSIVE zero_pad(_, _)
zero_pad(s, w) == IF Len(s) >= w THEN s ELSE zero_pad(<<"0">> \o s, w)

is_digit(c) == \E i \in 1..10 : digits[i] = c

digit_val(c) == (CHOOSE i \in 1..10 : digits[i] = c) - 1

RECURSIVE digits_val(_)
digits_val(s) ==
    IF s = <<>> THEN 0 ELSE 10 * digits_val(SubSeq(s, 1, Len(s) - 1)) + digit_val(s[Len(s)])

-----------------------------------------------------------------------------
(* Python values                                                           *)

None == [t |-> "None"]

Str(s) == [t |-> "str", v |-> s]

\* an int or float; money is in pence
Num(n) == [t |-> "num", v |-> n]

Datetime(y, m, d) == [t |-> "datetime", v |-> <<y, m, d>>]

\* bool(v)
truthy(v) ==
    CASE v.t = "None" -> FALSE
      [] v.t = "str" -> v.v # <<>>
      [] v.t = "num" -> v.v # 0
      [] v.t = "datetime" -> TRUE

\* a or b
py_or(a, b) == IF truthy(a) THEN a ELSE b

\* date.strftime('%Y-%m-%d')
strftime(d) ==
    zero_pad(int_str(d.v[1]), 4) \o <<"-">> \o zero_pad(int_str(d.v[2]), 2)
        \o <<"-">> \o zero_pad(int_str(d.v[3]), 2)

\* str(v) for None, str and datetime values
py_str(v) ==
    CASE v.t = "None" -> <<"N","o","n","e">>
      [] v.t = "str" -> v.v
      [] v.t = "datetime" -> strftime(v) \o <<" ","0","0",":","0","0",":","0","0">>

\* the text of a decimal literal [sign] digits [. digits], in pence; the
\* result of float() on any other text is ValueError
parse_decimal(s) ==
    LET t == str_strip(s)
        neg == t # <<>> /\ Head(t) = "-"
        body == IF t # <<>> /\ Head(t) \in {"-", "+"} THEN Tail(t) ELSE t
        dots == {i \in 1..Len(body) : body[i] = "."}
        dot == IF dots = {} THEN Len(body) + 1 ELSE CHOOSE i \in dots : \A j \in dots : i <= j
        ip == SubSeq(body, 1, dot - 1)
        fp == SubSeq(body, dot + 1, Len(body))
        wellformed == /\ Cardinality(dots) <= 1
                      /\ Len(ip) + Len(fp) > 0
                      /\ \A i \in 1..Len(ip) : is_digit(ip[i])
                      /\ \A i \in 1..Len(fp) : is_digit(fp[i])
        fp2 == str_prefix(fp \o <<"0","0">>, 2)
        mag == 100 * digits_val(ip) + digits_val(fp2)
    IN IF wellformed THEN [ok |-> TRUE, v |-> IF neg THEN 0 - mag ELSE mag]
       ELSE [ok |-> FALSE]

\* float(v): a number, or an exception (ok = FALSE)
py_float(v) ==
    CASE v.t = "num" -> [ok |-> TRUE, v |-> v.v]
      [] v.t = "str" -> parse_decimal(v.v)
      [] OTHER -> [ok |-> FALSE]

\* abs(x) left out
py_abs_identity(x) == x

\* abs(x)
py_abs(x) == IF x < 0 THEN 0 - x ELSE x

\* d.get(k, default) / k in d, for a dict literal written as its item list
dict_has(d, k) == \E i \in 1..Len(d) : d[i][1] = k

\* d.get(k, k): a missing key is passed through
dict_get_passthrough(d, k, default) ==
    IF dict_has(d, k)
    THEN d[CHOOSE i \in 1..Len(d) : d[i][1] = k /\ \A j \in (i + 1)..Len(d) : d[j][1] # k][2]
    ELSE k

dict_get(d, k, default) ==
    IF dict_has(d, k)
    THEN d[CHOOSE i \in 1..Len(d) : d[i][1] = k /\ \A j \in (i + 1)..Len(d) : d[j][1] # k][2]
    ELSE default

\* an ascending sort that is then reversed: records of one date change places
RECURSIVE sort_by_date_reversed_ascending(_)
sort_by_date_reversed_ascending(s) ==
    IF s = <<>> THEN <<>>
    ELSE LET x == s[Len(s)]
             r == sort_by_date_reversed_ascending(SubSeq(s, 1, Len(s) - 1))
             lower == {j \in 1..Len(r) : ~str_lt(x.date.v, r[j].date.v)}
             k == IF lower = {} THEN Len(r) + 1 ELSE CHOOSE j \in lower : \A i \in lower : j <= i
         IN SubSeq(r, 1, k - 1) \o <<x>> \o SubSeq(r, k, Len(r))

\* list.sort(key=lambda x: x['date'], reverse=True): stable, newest first
RECURSIVE sort_by_date_reverse(_)
sort_by_date_reverse(s) ==
    IF s = <<>> THEN <<>>
    ELSE LET x == s[Len(s)]
             r == sort_by_date_reverse(SubSeq(s, 1, Len(s) - 1))
             lower == {j \in 1..Len(r) : str_lt(r[j].date.v, x.date.v)}
             k == IF lower = {} THEN Len(r) + 1 ELSE CHOOSE j \in lower : \A i \in lower : j <= i
         IN SubSeq(r, 1, k - 1) \o <<x>> \o SubSeq(r, k, Len(r))

\* open(name, 'w') ... json.dump(content, f)
write_file(fs, name, content) ==
    [f \in DOMAIN fs \cup {name} |-> IF f = name THEN content ELSE fs[f]]

-----------------------------------------------------------------------------
(* The workbook: one row of the Transactions sheet, by column letter       *)

income == <<"i","n","c","o","m","e">>

bill == <<"b","i","l","l">>

giving == <<"g","i","v","i","n","g">>

allowance == <<"a","l","l","o","w","a","n","c","e">>

savings == <<"s","a","v","i","n","g","s">>

other == <<"o","t","h","e","r">>

outflow == <<"o","u","t","f","l","o","w">>

transfer == <<"t","r","a","n","s","f","e","r">>

Categories == {income, bill, giving, allowance, savings, other}

Row(a, b, c, d, e, h, i) == [A |-> a, B |-> b, C |-> c, D |-> d, E |-> e, H |-> h, I |-> i]

\* a valid period-1 expense row, the rows below vary it
BaseRow == Row(Datetime(2026, 1, 5), Str(<<"E","x","p","e","n","s","e">>), Str(<<"T","i","t","h","e">>), None, Num(-41000), None, Num(1))

TypeCells == {Str(<<"I","n","c","o","m","e">>), Str(<<"E","x","p","e","n","s","e">>), Str(<<"T","r","a","n","s","f","e","r">>), None}

CategoryCells == {Str(<<"T","i","t","h","e">>), Str(<<"I","n","c","o","m","e"," ","-"," ","F","M">>), Str(<<"C","o","s","m","e","t","i","c","s">>), Str(<<"H","o","u","s","e"," ","K","e","e","p">>), None}

DateCells == {Datetime(2026, 1, 5), Datetime(2025, 12, 22), Datetime(2026, 1, 26), Str(<<"0","5","/","0","1","/","2","0","2","6">>), None}

AmountCells == {Num(-41000), Num(200000), Num(0), Str(<<"a","b","c">>), Str(<<"1","2",".","5","0">>), None}

DescriptionCells == {None, Str(<<"H","a","i","r","c","u","t">>), Str(<<"T","r","a","n","s","f","e","r"," ","t","o"," ","M","o","n","e","y"," ","B","o","x">>)}

PeriodCells == {Num(1), Num(2), None}

NotesCells == {None, Str(<<" ","p","a","i","d"," ">>), Str(<<"=","H","2","+","1">>)}

\* the rows that reach the scripts: every type with every category, and the
\* base row with one other cell varied
Rows ==
    {[BaseRow EXCEPT !.B = b, !.C = c] : b \in TypeCells, c \in CategoryCells}
    \cup {[BaseRow EXCEPT !.B = Str(<<"I","n","c","o","m","e">>), !.C = Str(<<"I","n","c","o","m","e"," ","-"," ","F","M">>), !.E = Num(200000), !.D = d] : d \in DescriptionCells}
    \cup {[BaseRow EXCEPT !.C = Str(<<"T","i","t","h","e"," ">>)]}
    \cup {[BaseRow EXCEPT !.A = a] : a \in DateCells}
    \cup {[BaseRow EXCEPT !.E = e] : e \in AmountCells}
    \cup {[BaseRow EXCEPT !.D = d] : d \in DescriptionCells}
    \cup {[BaseRow EXCEPT !.I = p] : p \in PeriodCells}
    \cup {[BaseRow EXCEPT !.H = h] : h \in NotesCells}
    \cup {[BaseRow EXCEPT !.D = Str(<<"H","a","i","r","c","u","t">>), !.B = b] : b \in TypeCells}
    \cup {[BaseRow EXCEPT !.D = Str(<<"H","a","i","r","c","u","t">>), !.C = c] : c \in CategoryCells}
    \cup {[BaseRow EXCEPT !.D = Str(<<"F","U","E","L"," ","f","o","r"," ","c","a","r">>)]}
    \cup {[BaseRow EXCEPT !.C = Str(<<"S","a","v","i","n","g","s"," ","T","r","a","n","s","f","e","r">>)]}

-----------------------------------------------------------------------------
(* finalize_extract.py                                                     *)

finalize_extract_category_to_app == <<
    <<<<"R","e","n","t">>, bill>>,
    <<<<"I","n","s","u","r","a","n","c","e">>, bill>>,
    <<<<"R","o","a","d"," ","T","a","x">>, bill>>,
    <<<<"W","a","t","e","r"," ","B","i","l","l">>, bill>>,
    <<<<"E","l","e","c","t","r","i","c","i","t","y"," ","&"," ","G","a","s">>, bill>>,
    <<<<"C","o","m","m","u","n","i","t","y"," ","F","i","b","r","e"," ","/"," ","I","n","t","e","r","n","e","t">>, bill>>,
    <<<<"i","P","h","o","n","e"," ","P","a","y","m","e","n","t","s">>, bill>>,
    <<<<"P","a","r","e","n","t","s">>, bill>>,
    <<<<"C","r","e","d","i","t"," ","C","a","r","d"," ","P","a","y","m","e","n","t">>, bill>>,
    <<<<"F","u","e","l">>, bill>>,
    <<<<"L","a","p","t","o","p">>, bill>>,
    <<<<"T","i","t","h","e">>, giving>>,
    <<<<"T","i","t","h","e"," ">>, giving>>,
    <<<<"O","f","f","e","r","i","n","g","s">>, giving>>,
    <<<<"C","h","a","r","i","t","y"," ","-"," ","P","e","r","e","z"," ","U","n","i">>, giving>>,
    <<<<"C","h","a","r","i","t","y"," ","-"," ","J","P","C"," ","U","t","i","l","i","t","i","e","s">>, giving>>,
    <<<<"D","o","n","a","t","i","o","n","s"," ","(","V","a","r","i","a","b","l","e",")">>, giving>>,
    <<<<"H","o","u","s","e"," ","K","e","e","p">>, allowance>>,
    <<<<"O","t","h","e","r","s">>, allowance>>,
    <<<<"U","b","e","r"," ","-"," ","T","f","L">>, allowance>>,
    <<<<"O","n","e","-","O","f","f"," ","G","i","v","i","n","g"," ","(","C","h","r","i","s","t","m","a","s",")">>, other>>,
    <<<<"S","a","v","i","n","g","s"," ","T","r","a","n","s","f","e","r">>, savings>> >>

\* f"txn-{n}"
txn_id_str(n) == <<"t","x","n","-">> \o int_str(n)

\* the key of app_category_totals, chosen by the record type alone
finalize_extract_total_key_by_type(app_cat, final_type) ==
    IF final_type = income THEN income
    ELSE IF final_type = transfer THEN savings
    ELSE bill

\* the key of app_category_totals a record is added to
finalize_extract_total_key(app_cat, final_type) ==
    IF app_cat = income THEN income
    ELSE IF final_type = transfer THEN savings
    ELSE app_cat

\* an id numbered by the position of the row in the sheet
finalize_extract_id_by_row(records, rows_read) == txn_id_str(rows_read + 1)

\* f"txn-{len(transactions)+1}"
finalize_extract_id(records, rows_read) == txn_id_str(Len(records) + 1)

\* the loop body, for one row
finalize_extract_row(row) ==
    /\ script = "finalize_extract"
    /\ pc = "loop"
    /\ nrows < MaxRows
    /\ nrows' = nrows + 1
    /\ LET date == row.A
           txn_type == row.B
           category == row.C
           description == row.D
           amount == row.E
           period == row.I
           category_str == IF truthy(category) THEN py_str(category) ELSE <<>>
           final_type == IF txn_type = Str(<<"I","n","c","o","m","e">>) THEN income
                         ELSE IF txn_type = Str(<<"T","r","a","n","s","f","e","r">>) THEN transfer
                         ELSE outflow
           app_cat == IF txn_type = Str(<<"I","n","c","o","m","e">>) THEN income
                      ELSE IF txn_type = Str(<<"T","r","a","n","s","f","e","r">>) THEN savings
                      ELSE dict_get(finalize_extract_category_to_app, category_str, other)
           label == py_str(py_or(description, py_or(category, Str(<<>>))))
           f == py_float(amount)
           total_key == finalize_extract_total_key(app_cat, final_type)
       IN IF period # Num(1) \/ ~truthy(date) \/ ~truthy(amount) \/ date.t # "datetime"
          THEN UNCHANGED <<pc, transactions, app_category_totals>>
          ELSE IF ~f.ok
          THEN /\ pc' = "crashed"
               /\ UNCHANGED <<transactions, app_category_totals>>
          ELSE /\ transactions' = Append(transactions,
                    [id |-> Str(finalize_extract_id(transactions, nrows)),
                     date |-> Str(strftime(date)),
                     label |-> Str(label),
                     amount |-> Num(py_abs(f.v)),
                     type |-> Str(final_type),
                     category |-> Str(app_cat),
                     notes |-> Str(category_str),
                     linkedRuleId |-> IF app_cat = savings THEN Str(savings) ELSE None])
               /\ app_category_totals' =
                    [app_category_totals EXCEPT ![total_key] = @ + py_abs(f.v)]
               /\ pc' = pc
    /\ UNCHANGED <<script, workbook, categories_in_transactions, unmapped, txn_id, files>>
    /\ UNCHANGED <<actuals, report>>

\* after the loop: sort newest first and write the JSON file
finalize_extract_save ==
    /\ script = "finalize_extract"
    /\ pc = "loop"
    /\ transactions' = sort_by_date_reverse(transactions)
    /\ files' = write_file(files, "period1_transactions_final.json", transactions')
    /\ pc' = "done"
    /\ UNCHANGED <<script, workbook, categories_in_transactions, nrows, app_category_totals, unmapped, txn_id>>
    /\ UNCHANGED <<actuals, report>>

-----------------------------------------------------------------------------
(* extract_correct.py                                                      *)
extract_correct_category_to_app == <<
    <<<<"R","e","n","t">>, bill>>,
    <<<<"I","n","s","u","r","a","n","c","e">>, bill>>,
    <<<<"R","o","a","d"," ","T","a","x">>, bill>>,
    <<<<"W","a","t","e","r"," ","B","i","l","l">>, bill>>,
    <<<<"E","l","e","c","t","r","i","c","i","t","y"," ","&"," ","G","a","s">>, bill>>,
    <<<<"C","o","m","m","u","n","i","t","y"," ","F","i","b","r","e"," ","/"," ","I","n","t","e","r","n","e","t">>, bill>>,
    <<<<"i","P","h","o","n","e"," ","P","a","y","m","e","n","t","s">>, bill>>,
    <<<<"P","a","r","e","n","t","s">>, bill>>,
    <<<<"C","r","e","d","i","t"," ","C","a","r","d"," ","P","a","y","m","e","n","t">>, bill>>,
    <<<<"F","u","e","l">>, bill>>,
    <<<<"L","a","p","t","o","p">>, bill>>,
    <<<<"T","i","t","h","e">>, giving>>,
    <<<<"O","f","f","e","r","i","n","g","s">>, giving>>,
    <<<<"C","h","a","r","i","t","y"," ","-"," ","P","e","r","e","z"," ","U","n","i">>, giving>>,
    <<<<"C","h","a","r","i","t","y"," ","-"," ","J","P","C"," ","U","t","i","l","i","t","i","e","s">>, giving>>,
    <<<<"D","o","n","a","t","i","o","n","s"," ","(","V","a","r","i","a","b","l","e",")">>, giving>>,
    <<<<"H","o","u","s","e"," ","K","e","e","p">>, allowance>>,
    <<<<"O","t","h","e","r","s">>, allowance>>,
    <<<<"U","b","e","r"," ","-"," ","T","f","L">>, allowance>>,
    <<<<"O","n","e","-","O","f","f"," ","G","i","v","i","n","g"," ","(","C","h","r","i","s","t","m","a","s",")">>, other>>,
    <<<<"S","a","v","i","n","g","s"," ","T","r","a","n","s","f","e","r">>, savings>> >>

\* d[k]['count'] += 1; d[k]['amount'] += amt, on a
\* defaultdict(lambda: {'count': 0, 'amount': 0})
defaultdict_add(d, k, amt) ==
    LET old == IF k \in DOMAIN d THEN d[k] ELSE [count |-> 0, amount |-> 0]
    IN [x \in DOMAIN d \cup {k} |->
          IF x = k THEN [count |-> old.count + 1, amount |-> old.amount + amt] ELSE d[x]]

\* the loop body, for one row
extract_correct_row(row) ==
    /\ script = "extract_correct"
    /\ pc = "loop"
    /\ nrows < MaxRows
    /\ nrows' = nrows + 1
    /\ LET date == row.A
           txn_type == row.B
           category == row.C
           description == row.D
           amount == row.E
           period == row.I
           category_str == IF truthy(category) THEN py_str(category) ELSE <<>>
           is_expense == txn_type # Str(<<"I","n","c","o","m","e">>) /\ txn_type # Str(<<"T","r","a","n","s","f","e","r">>)
           final_type == IF txn_type = Str(<<"I","n","c","o","m","e">>) THEN income
                         ELSE IF txn_type = Str(<<"T","r","a","n","s","f","e","r">>) THEN transfer
                         ELSE outflow
           mapped == dict_has(extract_correct_category_to_app, category_str)
           app_cat == IF txn_type = Str(<<"I","n","c","o","m","e">>) THEN income
                      ELSE IF txn_type = Str(<<"T","r","a","n","s","f","e","r">>) THEN savings
                      ELSE IF mapped THEN dict_get(extract_correct_category_to_app, category_str, other)
                      ELSE other
           label == py_str(py_or(description, py_or(category, Str(<<>>))))
           f == py_float(amount)
       IN IF period # Num(1) \/ ~truthy(date) \/ ~truthy(amount) \/ date.t # "datetime"
          THEN UNCHANGED <<pc, transactions, app_category_totals, unmapped>>
          ELSE IF ~f.ok
          THEN /\ pc' = "crashed"
               /\ UNCHANGED <<transactions, app_category_totals, unmapped>>
          ELSE /\ transactions' = Append(transactions,
                    [id |-> Str(txn_id_str(Len(transactions) + 1)),
                     date |-> Str(strftime(date)),
                     label |-> Str(label),
                     amount |-> Num(py_abs(f.v)),
                     type |-> Str(final_type),
                     category |-> Str(app_cat),
                     notes |-> Str(category_str),
                     linkedRuleId |-> IF app_cat = savings THEN Str(savings) ELSE None])
               /\ app_category_totals' = defaultdict_add(app_category_totals, app_cat, py_abs(f.v))
               /\ unmapped' = IF is_expense /\ ~mapped
                              THEN defaultdict_add(unmapped, category_str, py_abs(f.v))
                              ELSE unmapped
               /\ pc' = pc
    /\ UNCHANGED <<script, workbook, categories_in_transactions, txn_id, files>>
    /\ UNCHANGED <<actuals, report>>

\* after the loop: sort newest first and write the JSON file
extract_correct_save ==
    /\ script = "extract_correct"
    /\ pc = "loop"
    /\ transactions' = sort_by_date_reverse(transactions)
    /\ files' = write_file(files, "period1_transactions_final.json", transactions')
    /\ pc' = "done"
    /\ UNCHANGED <<script, workbook, categories_in_transactions, nrows, app_category_totals, unmapped, txn_id>>
    /\ UNCHANGED <<actuals, report>>

-----------------------------------------------------------------------------
(* extract_final2.py                                                       *)
extract_final2_category_to_app == <<
    <<<<"R","e","n","t">>, bill>>,
    <<<<"I","n","s","u","r","a","n","c","e">>, bill>>,
    <<<<"R","o","a","d"," ","T","a","x">>, bill>>,
    <<<<"W","a","t","e","r"," ","B","i","l","l">>, bill>>,
    <<<<"E","l","e","c","t","r","i","c","i","t","y"," ","&"," ","G","a","s">>, bill>>,
    <<<<"C","o","m","m","u","n","i","t","y"," ","F","i","b","r","e"," ","/"," ","I","n","t","e","r","n","e","t">>, bill>>,
    <<<<"i","P","h","o","n","e"," ","P","a","y","m","e","n","t","s">>, bill>>,
    <<<<"P","a","r","e","n","t","s">>, bill>>,
    <<<<"C","r","e","d","i","t"," ","C","a","r","d"," ","P","a","y","m","e","n","t">>, bill>>,
    <<<<"F","u","e","l">>, bill>>,
    <<<<"L","a","p","t","o","p">>, bill>>,
    <<<<"O","n","e","-","O","f","f"," ","G","i","v","i","n","g"," ","(","C","h","r","i","s","t","m","a","s",")">>, other>>,
    <<<<"T","i","t","h","e">>, giving>>,
    <<<<"O","f","f","e","r","i","n","g","s">>, giving>>,
    <<<<"C","h","a","r","i","t","y"," ","-"," ","P","e","r","e","z"," ","U","n","i">>, giving>>,
    <<<<"C","h","a","r","i","t","y"," ","-"," ","J","P","C"," ","U","t","i","l","i","t","i","e","s">>, giving>>,
    <<<<"H","o","u","s","e"," ","K","e","e","p">>, allowance>>,
    <<<<"S","a","v","i","n","g","s"," ","T","r","a","n","s","f","e","r">>, savings>> >>

\* the first loop over the sheet (categories_in_transactions), for one row
extract_final2_scan_row(row) ==
    /\ script = "extract_final2"
    /\ pc = "scan"
    /\ Len(workbook) < MaxRows
    /\ workbook' = Append(workbook, row)
    /\ LET date == row.A
           category == row.C
           description == row.D
           amount == row.E
           period == row.I
           cat_name == IF truthy(category) THEN py_str(category) ELSE <<"N","o","n","e">>
           f == py_float(amount)
           old == IF cat_name \in DOMAIN categories_in_transactions
                  THEN categories_in_transactions[cat_name]
                  ELSE [count |-> 0, amount |-> 0, examples |-> <<>>]
           new == [count |-> old.count + 1,
                   amount |-> old.amount + py_abs(f.v),
                   examples |-> IF Len(old.examples) < 2 THEN Append(old.examples, description)
                                ELSE old.examples]
       IN IF period # Num(1) \/ ~truthy(date) \/ ~truthy(amount)
          THEN UNCHANGED <<pc, categories_in_transactions>>
          ELSE IF ~f.ok
          THEN /\ pc' = "crashed"
               /\ UNCHANGED categories_in_transactions
          ELSE /\ categories_in_transactions' =
                    [x \in DOMAIN categories_in_transactions \cup {cat_name} |->
                        IF x = cat_name THEN new ELSE categories_in_transactions[x]]
               /\ pc' = pc
    /\ UNCHANGED <<script, nrows, transactions, app_category_totals, unmapped, txn_id, files>>
    /\ UNCHANGED <<actuals, report>>

\* the first loop reaches the end of the sheet
extract_final2_scan_end ==
    /\ script = "extract_final2"
    /\ pc = "scan"
    /\ pc' = "loop"
    /\ UNCHANGED <<script, workbook, categories_in_transactions, nrows, transactions,
                   app_category_totals, unmapped, txn_id, files>>
    /\ UNCHANGED <<actuals, report>>

\* the second loop over the same sheet, for its next row
extract_final2_row ==
    /\ script = "extract_final2"
    /\ pc = "loop"
    /\ nrows < Len(workbook)
    /\ nrows' = nrows + 1
    /\ LET row == workbook[nrows + 1]
           date == row.A
           txn_type == row.B
           category == row.C
           description == row.D
           amount == row.E
           period == row.I
           mapped == dict_has(extract_final2_category_to_app, py_str(category))
           app_cat == IF mapped THEN dict_get(extract_final2_category_to_app, py_str(category), other)
                      ELSE IF txn_type = Str(<<"I","n","c","o","m","e">>) THEN income
                      ELSE IF txn_type = Str(<<"T","r","a","n","s","f","e","r">>) THEN savings
                      ELSE other
           is_unmapped == /\ ~mapped
                          /\ txn_type # Str(<<"I","n","c","o","m","e">>)
                          /\ txn_type # Str(<<"T","r","a","n","s","f","e","r">>)
                          /\ py_str(category) \notin {<<"N","o","n","e">>, <<>>}
           final_type == IF txn_type = Str(<<"T","r","a","n","s","f","e","r">>) THEN transfer
                         ELSE IF txn_type = Str(<<"I","n","c","o","m","e">>) THEN income
                         ELSE outflow
           label == py_str(py_or(description, py_or(category, Str(<<>>))))
           f == py_float(amount)
       IN IF period # Num(1) \/ ~truthy(date) \/ ~truthy(amount) \/ date.t # "datetime"
          THEN UNCHANGED <<pc, transactions, app_category_totals, unmapped>>
          ELSE IF ~f.ok
          THEN /\ pc' = "crashed"
               /\ unmapped' = IF is_unmapped THEN unmapped \cup {py_str(category)} ELSE unmapped
               /\ UNCHANGED <<transactions, app_category_totals>>
          ELSE /\ transactions' = Append(transactions,
                    [id |-> Str(txn_id_str(Len(transactions) + 1)),
                     date |-> Str(strftime(date)),
                     label |-> Str(label),
                     amount |-> Num(py_abs(f.v)),
                     type |-> Str(final_type),
                     category |-> Str(app_cat),
                     notes |-> Str(IF truthy(category) THEN py_str(category) ELSE <<>>),
                     linkedRuleId |-> IF app_cat = savings THEN Str(savings) ELSE None])
               /\ app_category_totals' = defaultdict_add(app_category_totals, app_cat, py_abs(f.v))
               /\ unmapped' = IF is_unmapped THEN unmapped \cup {py_str(category)} ELSE unmapped
               /\ pc' = pc
    /\ UNCHANGED <<script, workbook, categories_in_transactions, txn_id, files>>
    /\ UNCHANGED <<actuals, report>>

\* after the second loop: sort newest first and write the JSON file
extract_final2_save ==
    /\ script = "extract_final2"
    /\ pc = "loop"
    /\ nrows = Len(workbook)
    /\ transactions' = sort_by_date_reverse(transactions)
    /\ files' = write_file(files, "period1_transactions_final.json", transactions')
    /\ pc' = "done"
    /\ UNCHANGED <<script, workbook, categories_in_transactions, nrows, app_category_totals, unmapped, txn_id>>
    /\ UNCHANGED <<actuals, report>>

-----------------------------------------------------------------------------
(* extract_final.py                                                        *)

\* map_to_type_and_category(excel_type, excel_category) -> <<type, category>>
\* (excel_type and excel_category are None or str)
map_to_type_and_category(excel_type, excel_category) ==
    LET type_lower == IF truthy(excel_type) THEN str_strip(str_lower(excel_type.v)) ELSE <<>>
        category_lower == str_strip(str_lower(py_or(excel_category, Str(<<>>)).v))
        has(sub) == str_contains(sub, category_lower)
    IN IF type_lower = <<"i","n","c","o","m","e">> THEN <<income, income>>
       ELSE IF type_lower = <<"e","x","p","e","n","s","e">>
       THEN IF has(<<"t","i","t","h","e">>) \/ has(<<"g","i","v","i","n","g">>) THEN <<outflow, giving>>
            ELSE IF has(<<"b","i","l","l">>) \/ has(<<"e","l","e","c","t","r","i","c","i","t","y">>) \/ has(<<"g","a","s">>) \/ has(<<"w","a","t","e","r">>)
                    \/ has(<<"i","n","t","e","r","n","e","t">>) \/ has(<<"p","h","o","n","e">>) THEN <<outflow, bill>>
            ELSE IF has(<<"s","a","v","i","n","g">>) \/ has(<<"i","n","v","e","s","t","m","e","n","t">>) THEN <<transfer, savings>>
            ELSE IF has(<<"a","l","l","o","w","a","n","c","e">>) \/ has(<<"h","o","u","s","e"," ","k","e","e","p">>) THEN <<outflow, allowance>>
            ELSE <<outflow, other>>
       ELSE IF type_lower = <<"t","r","a","n","s","f","e","r">> THEN <<transfer, savings>>
       ELSE <<outflow, other>>

\* s.startswith(prefix)
str_startswith(s, prefix) == Len(s) >= Len(prefix) /\ SubSeq(s, 1, Len(prefix)) = prefix

\* any(row)
any_row(row) == \E col \in DOMAIN row : truthy(row[col])

\* the loop body, for one row after the header
extract_final_row(row) ==
    /\ script = "extract_final"
    /\ pc = "loop"
    /\ nrows < MaxRows
    /\ nrows' = nrows + 1
    /\ LET date_val == row.A
           type_val == row.B
           category_val == row.C
           description == row.D
           amount == row.E
           notes == IF truthy(row.H) /\ ~str_startswith(py_str(row.H), <<"=">>) THEN row.H ELSE Str(<<>>)
           date_str == IF date_val.t = "datetime" THEN strftime(date_val) ELSE py_str(date_val)
           mapped == map_to_type_and_category(type_val, category_val)
           f == py_float(amount)
       IN IF ~any_row(row) \/ ~truthy(date_val) \/ amount = None \/ ~f.ok
          THEN UNCHANGED <<transactions, txn_id>>
          ELSE /\ transactions' = Append(transactions,
                    [id |-> Str(txn_id_str(txn_id)),
                     date |-> Str(date_str),
                     label |-> Str(IF truthy(description) THEN py_str(description) ELSE <<>>),
                     amount |-> Num(f.v),
                     type |-> Str(mapped[1]),
                     category |-> Str(mapped[2]),
                     notes |-> Str(IF truthy(notes) THEN str_strip(py_str(notes)) ELSE <<>>)])
               /\ txn_id' = txn_id + 1
    /\ UNCHANGED <<script, pc, workbook, categories_in_transactions, app_category_totals, unmapped, files>>
    /\ UNCHANGED <<actuals, report>>

\* after the loop: json.dumps and write the file
extract_final_save ==
    /\ script = "extract_final"
    /\ pc = "loop"
    /\ files' = write_file(files, "transactions_extracted.json", transactions)
    /\ pc' = "done"
    /\ UNCHANGED <<script, workbook, categories_in_transactions, nrows, transactions,
                   app_category_totals, unmapped, txn_id>>
    /\ UNCHANGED <<actuals, report>>

-----------------------------------------------------------------------------
(* extract_period1.py                                                      *)
extract_period1_category_map == <<
    <<<<"I","n","c","o","m","e"," ","-"," ","F","M">>, income>>,
    <<<<"I","n","c","o","m","e"," ","-"," ","O","u","t","l","i","e","r">>, income>>,
    <<<<"I","n","c","o","m","e"," ","-"," ","I","n","t","e","r","e","s","t">>, income>>,
    <<<<"I","n","c","o","m","e"," ","-"," ","G","i","f","t">>, income>>,
    <<<<"E","l","e","c","t","r","i","c","i","t","y"," ","&"," ","G","a","s">>, bill>>,
    <<<<"W","a","t","e","r">>, bill>>,
    <<<<"I","n","t","e","r","n","e","t">>, bill>>,
    <<<<"M","o","b","i","l","e">>, bill>>,
    <<<<"C","a","r"," ","I","n","s","u","r","a","n","c","e">>, bill>>,
    <<<<"T","i","t","h","e">>, giving>>,
    <<<<"O","f","f","e","r","i","n","g","s">>, giving>>,
    <<<<"G","i","f","t","s">>, giving>>,
    <<<<"C","h","a","r","i","t","y">>, giving>>,
    <<<<"F","o","o","d">>, allowance>>,
    <<<<"H","o","u","s","e"," ","K","e","e","p">>, allowance>>,
    <<<<"O","t","h","e","r","s">>, allowance>>,
    <<<<"S","a","v","i","n","g","s">>, savings>> >>

extract_period1_type_map == <<
    <<<<"I","n","c","o","m","e">>, income>>,
    <<<<"E","x","p","e","n","s","e">>, outflow>>,
    <<<<"T","r","a","n","s","f","e","r">>, transfer>> >>

\* d.get(k, default) where the key k is a cell value (None or str)
dict_get_value(d, k, default) ==
    IF k.t = "str" THEN dict_get(d, k.v, default) ELSE default

\* the loop body, for one row
extract_period1_row(row) ==
    /\ script = "extract_period1"
    /\ pc = "loop"
    /\ nrows < MaxRows
    /\ nrows' = nrows + 1
    /\ LET period == row.I
           date_val == row.A
           type_val == row.B
           category_val == row.C
           desc_val == row.D
           amount_val == row.E
           notes_val == row.H
           date_str == IF date_val.t = "datetime" THEN strftime(date_val)
                       ELSE str_prefix(py_str(date_val), 10)
           app_type == dict_get_value(extract_period1_type_map, type_val, outflow)
           app_category == IF app_type = income THEN income
                           ELSE IF app_type = transfer THEN savings
                           ELSE dict_get_value(extract_period1_category_map, category_val, other)
           txn == [id |-> Str(txn_id_str(txn_id)),
                   date |-> Str(date_str),
                   label |-> IF truthy(desc_val) THEN desc_val ELSE Str(<<"T","r","a","n","s","a","c","t","i","o","n">>),
                   amount |-> amount_val,
                   type |-> Str(app_type),
                   category |-> Str(app_category),
                   notes |-> IF truthy(notes_val) THEN notes_val ELSE Str(<<>>)]
           linked == [id |-> txn.id, date |-> txn.date, label |-> txn.label, amount |-> txn.amount,
                      type |-> txn.type, category |-> txn.category, notes |-> txn.notes,
                      linkedRuleId |-> Str(savings)]
       IN IF period # Num(1) \/ ~truthy(date_val) \/ amount_val = None
          THEN UNCHANGED <<transactions, txn_id>>
          ELSE /\ transactions' = Append(transactions,
                    IF app_type = transfer /\ app_category = savings THEN linked ELSE txn)
               /\ txn_id' = txn_id + 1
    /\ UNCHANGED <<script, pc, workbook, categories_in_transactions, app_category_totals, unmapped, files>>
    /\ UNCHANGED <<actuals, report>>

\* after the loop: the summary sums t['amount'] over every record (TypeError
\* on a str amount), then the JSON file is written
extract_period1_save ==
    /\ script = "extract_period1"
    /\ pc = "loop"
    /\ IF \E i \in 1..Len(transactions) : transactions[i].amount.t # "num"
       THEN pc' = "crashed" /\ UNCHANGED files
       ELSE /\ files' = write_file(files, "period1_transactions.json", transactions)
            /\ pc' = "done"
    /\ UNCHANGED <<script, workbook, categories_in_transactions, nrows, transactions,
                   app_category_totals, unmapped, txn_id>>
    /\ UNCHANGED <<actuals, report>>

-----------------------------------------------------------------------------
(* extract_with_column_c.py                                                *)
extract_with_column_c_category_mapping == <<
    <<<<"R","e","n","t">>, bill>>,
    <<<<"I","n","s","u","r","a","n","c","e">>, bill>>,
    <<<<"R","o","a","d"," ","T","a","x">>, bill>>,
    <<<<"W","a","t","e","r"," ","B","i","l","l">>, bill>>,
    <<<<"C","o","m","m","u","n","i","t","y"," ","F","i","b","r","e"," ","/"," ","I","n","t","e","r","n","e","t">>, bill>>,
    <<<<"E","l","e","c","t","r","i","c","i","t","y"," ","&"," ","G","a","s">>, bill>>,
    <<<<"i","P","h","o","n","e"," ","P","a","y","m","e","n","t","s">>, bill>>,
    <<<<"P","a","r","e","n","t","s">>, bill>>,
    <<<<"C","r","e","d","i","t"," ","C","a","r","d"," ","P","a","y","m","e","n","t">>, bill>>,
    <<<<"F","u","e","l">>, bill>>,
    <<<<"H","o","u","s","e"," ","K","e","e","p">>, bill>>,
    <<<<"L","a","p","t","o","p">>, bill>>,
    <<<<"O","n","e","-","O","f","f"," ","G","i","v","i","n","g"," ","(","C","h","r","i","s","t","m","a","s",")">>, bill>>,
    <<<<"T","i","t","h","e">>, giving>>,
    <<<<"T","i","t","h","e"," ">>, giving>>,
    <<<<"O","f","f","e","r","i","n","g","s">>, giving>>,
    <<<<"C","h","a","r","i","t","y"," ","-"," ","P","e","r","e","z"," ","U","n","i">>, giving>>,
    <<<<"C","h","a","r","i","t","y"," ","-"," ","J","P","C"," ","U","t","i","l","i","t","i","e","s">>, giving>>,
    <<<<"D","o","n","a","t","i","o","n","s"," ","(","V","a","r","i","a","b","l","e",")">>, giving>>,
    <<<<"O","t","h","e","r","s">>, allowance>>,
    <<<<"U","b","e","r"," ","-"," ","T","f","L">>, allowance>>,
    <<<<"S","a","v","i","n","g","s"," ","T","r","a","n","s","f","e","r">>, savings>>,
    <<<<"I","n","c","o","m","e"," ","-"," ","F","M">>, income>>,
    <<<<"I","n","c","o","m","e"," ","-"," ","M","c","D">>, income>>,
    <<<<"I","n","c","o","m","e"," ","-"," ","O","u","t","l","i","e","r">>, income>>,
    <<<<"I","n","c","o","m","e"," ","-"," ","G","i","f","t","s">>, income>> >>

\* the positions of sep in s
str_find_all(s, sep) == {i \in 1..Len(s) : s[i] = sep}

is_leap(y) == (y % 4 = 0 /\ y % 100 # 0) \/ y % 400 = 0

days_in_month(y, m) ==
    IF m = 2 THEN (IF is_leap(y) THEN 29 ELSE 28)
    ELSE IF m \in {4, 6, 9, 11} THEN 30 ELSE 31

\* datetime.strptime(s, '%d/%m/%Y'): a datetime, or ValueError (ok = FALSE)
strptime_dmy(s) ==
    LET seps == str_find_all(s, "/")
        p1 == CHOOSE i \in seps : \A j \in seps : i <= j
        p2 == CHOOSE i \in seps : \A j \in seps : j <= i
        ds == SubSeq(s, 1, p1 - 1)
        ms == SubSeq(s, p1 + 1, p2 - 1)
        ys == SubSeq(s, p2 + 1, Len(s))
        alldigits(x) == \A i \in 1..Len(x) : is_digit(x[i])
        shaped == /\ Cardinality(seps) = 2
                  /\ Len(ds) \in {1, 2} /\ Len(ms) \in {1, 2} /\ Len(ys) = 4
                  /\ alldigits(ds) /\ alldigits(ms) /\ alldigits(ys)
        d == digits_val(ds)
        m == digits_val(ms)
        y == digits_val(ys)
    IN IF shaped /\ y >= 1 /\ m \in 1..12 /\ d >= 1 /\ d <= days_in_month(y, m)
       THEN [ok |-> TRUE, v |-> Datetime(y, m, d)]
       ELSE [ok |-> FALSE]

\* the loop body, for one row (date cells are None, str or datetime)
extract_with_column_c_row(row) ==
    /\ script = "extract_with_column_c"
    /\ pc = "loop"
    /\ nrows < MaxRows
    /\ nrows' = nrows + 1
    /\ LET period == row.I
           date_val == row.A
           parsed == strptime_dmy(date_val.v)
           bad_date == ~truthy(date_val) \/ (date_val.t = "str" /\ ~parsed.ok)
           date_str == IF date_val.t = "str" THEN strftime(parsed.v) ELSE strftime(date_val)
           description == py_or(row.D, Str(<<>>))
           category_col == py_or(row.C, Str(<<"O","t","h","e","r","s">>))
           f == py_float(row.E)
           has(sub) == str_contains(sub, category_col.v) \/ str_contains(sub, py_str(description))
           txn_type == IF has(<<"T","r","a","n","s","f","e","r">>) THEN transfer
                       ELSE IF has(<<"I","n","c","o","m","e">>) THEN income
                       ELSE outflow
           category == dict_get(extract_with_column_c_category_mapping, category_col.v, allowance)
       IN IF period # Num(1) \/ bad_date \/ ~truthy(row.E)
          THEN UNCHANGED <<pc, transactions, txn_id>>
          ELSE IF ~f.ok
          THEN pc' = "crashed" /\ UNCHANGED <<transactions, txn_id>>
          ELSE /\ txn_id' = txn_id + 1
               /\ transactions' = Append(transactions,
                    [id |-> Str(txn_id_str(txn_id')),
                     date |-> Str(date_str),
                     label |-> Str(str_prefix(py_str(description), 60)),
                     amount |-> Num(f.v),
                     type |-> Str(txn_type),
                     category |-> Str(category),
                     notes |-> Str(py_str(category_col)),
                     linkedRuleId |-> IF txn_type = transfer THEN Str(savings) ELSE None])
               /\ pc' = pc
    /\ UNCHANGED <<script, workbook, categories_in_transactions, app_category_totals, unmapped, files>>
    /\ UNCHANGED <<actuals, report>>

\* after the loop: write the JSON file
extract_with_column_c_save ==
    /\ script = "extract_with_column_c"
    /\ pc = "loop"
    /\ files' = write_file(files, "period1_correct_transactions.json", transactions)
    /\ pc' = "done"
    /\ UNCHANGED <<script, workbook, categories_in_transactions, nrows, transactions,
                   app_category_totals, unmapped, txn_id>>
    /\ UNCHANGED <<actuals, report>>

-----------------------------------------------------------------------------
(* gen_corrected_transactions.py                                           *)
gen_corrected_transactions_CATEGORY_MAPPING == <<
    <<<<"I","n","c","o","m","e"," ","-"," ","F","M">>, income>>,
    <<<<"I","n","c","o","m","e"," ","-"," ","M","c","D">>, income>>,
    <<<<"I","n","c","o","m","e"," ","-"," ","O","u","t","l","i","e","r">>, income>>,
    <<<<"I","n","c","o","m","e"," ","-"," ","G","i","f","t","s">>, income>>,
    <<<<"O","t","h","e","r","s">>, allowance>>,
    <<<<"T","i","t","h","e">>, giving>>,
    <<<<"O","f","f","e","r","i","n","g","s">>, giving>>,
    <<<<"C","h","a","r","i","t","y"," ","-"," ","P","e","r","e","z"," ","U","n","i">>, giving>>,
    <<<<"C","h","a","r","i","t","y"," ","-"," ","J","P","C"," ","U","t","i","l","i","t","i","e","s">>, giving>>,
    <<<<"D","o","n","a","t","i","o","n","s"," ","(","V","a","r","i","a","b","l","e",")">>, giving>>,
    <<<<"O","n","e","-","O","f","f"," ","G","i","v","i","n","g"," ","(","C","h","r","i","s","t","m","a","s",")">>, bill>>,
    <<<<"S","a","v","i","n","g","s"," ","T","r","a","n","s","f","e","r">>, savings>>,
    <<<<"R","e","n","t">>, bill>>,
    <<<<"I","n","s","u","r","a","n","c","e">>, bill>>,
    <<<<"R","o","a","d"," ","T","a","x">>, bill>>,
    <<<<"W","a","t","e","r"," ","B","i","l","l">>, bill>>,
    <<<<"C","o","m","m","u","n","i","t","y"," ","F","i","b","r","e"," ","/"," ","I","n","t","e","r","n","e","t">>, bill>>,
    <<<<"E","l","e","c","t","r","i","c","i","t","y"," ","&"," ","G","a","s">>, bill>>,
    <<<<"i","P","h","o","n","e"," ","P","a","y","m","e","n","t","s">>, bill>>,
    <<<<"P","a","r","e","n","t","s">>, bill>>,
    <<<<"C","r","e","d","i","t"," ","C","a","r","d"," ","P","a","y","m","e","n","t">>, bill>>,
    <<<<"F","u","e","l">>, bill>>,
    <<<<"L","a","p","t","o","p">>, bill>>,
    <<<<"H","o","u","s","e"," ","K","e","e","p">>, bill>>,
    <<<<"U","b","e","r"," ","-"," ","T","f","L">>, bill>>,
    <<<<"S","u","b","s","c","r","i","p","t","i","o","n","s">>, bill>>,
    <<<<"C","o","s","m","e","t","i","c","s">>, bill>>,
    <<<<"G","i","f","t","s">>, bill>> >>

\* datetime(2025, 12, 22)
period1_start == Datetime(2025, 12, 22)

\* datetime(2026, 1, 25)
period1_end == Datetime(2026, 1, 25)

\* a <= b on datetime
datetime_le(a, b) ==
    \/ a.v[1] < b.v[1]
    \/ a.v[1] = b.v[1] /\ a.v[2] < b.v[2]
    \/ a.v[1] = b.v[1] /\ a.v[2] = b.v[2] /\ a.v[3] <= b.v[3]

\* s.replace('"', '\\"')
RECURSIVE escape_quotes(_)
escape_quotes(s) ==
    IF s = <<>> THEN <<>>
    ELSE (IF Head(s) = "\"" THEN <<"\\", "\"">> ELSE <<Head(s)>>) \o escape_quotes(Tail(s))

\* one line of the TypeScript file: the values interpolated into the literal
\* { id: "..", date: "..", label: "..", amount: .., type: "..", category: "..",
\*   notes: "..", linkedRuleId: undefined },
ts_line(txn) ==
    [id |-> txn.id.v, date |-> txn.date.v, label |-> escape_quotes(py_str(txn.label)),
     amount |-> txn.amount.v, type |-> txn.type.v, category |-> txn.category.v,
     notes |-> escape_quotes(py_str(txn.notes))]

\* the loop body, for one row
gen_corrected_transactions_row(row) ==
    /\ script = "gen_corrected_transactions"
    /\ pc = "loop"
    /\ nrows < MaxRows
    /\ nrows' = nrows + 1
    /\ LET date_val == row.A
           type_val == row.B
           col_c_val == row.C
           desc_val == row.D
           amount_val == row.E
           f == py_float(amount_val)
           type_str == str_lower(str_strip(py_str(type_val)))
           col_c_str == str_strip(py_str(col_c_val))
           txn_type == IF type_str = <<"i","n","c","o","m","e">> THEN income
                       ELSE IF type_str = <<"e","x","p","e","n","s","e">> THEN outflow ELSE transfer
           amount == IF type_str = <<"i","n","c","o","m","e">> THEN f.v ELSE py_abs(f.v)
           app_category == IF type_str = <<"i","n","c","o","m","e">> THEN income
                           ELSE dict_get(gen_corrected_transactions_CATEGORY_MAPPING, col_c_str, other)
       IN IF \/ ~truthy(date_val) \/ ~truthy(desc_val) \/ col_c_val = None \/ amount_val = None
             \/ date_val.t # "datetime"
             \/ ~(datetime_le(period1_start, date_val) /\ datetime_le(date_val, period1_end))
             \/ ~f.ok
             \/ f.v = 0
             \/ type_str \notin {<<"i","n","c","o","m","e">>, <<"e","x","p","e","n","s","e">>, <<"t","r","a","n","s","f","e","r">>}
          THEN UNCHANGED <<transactions, txn_id, app_category_totals>>
          ELSE /\ txn_id' = txn_id + 1
               /\ transactions' = Append(transactions,
                    [id |-> Str(txn_id_str(txn_id')),
                     date |-> Str(strftime(date_val)),
                     label |-> Str(py_str(desc_val)),
                     amount |-> Num(amount),
                     type |-> Str(txn_type),
                     category |-> Str(app_category),
                     notes |-> Str(col_c_str)])
               /\ app_category_totals' = defaultdict_add(app_category_totals, app_category, amount)
    /\ UNCHANGED <<script, pc, workbook, categories_in_transactions, unmapped, files>>
    /\ UNCHANGED <<actuals, report>>

\* after the loop: write the JSON file, then the TypeScript file
gen_corrected_transactions_save ==
    /\ script = "gen_corrected_transactions"
    /\ pc = "loop"
    /\ files' = write_file(write_file(files, "period1_transactions_corrected.json", transactions),
                           "period1_transactions_corrected.ts",
                           [i \in 1..Len(transactions) |-> ts_line(transactions[i])])
    /\ pc' = "done"
    /\ UNCHANGED <<script, workbook, categories_in_transactions, nrows, transactions,
                   app_category_totals, unmapped, txn_id>>
    /\ UNCHANGED <<actuals, report>>

-----------------------------------------------------------------------------
(* gen_final_transactions.py                                               *)
gen_final_transactions_CATEGORY_MAPPING == <<
    <<<<"I","n","c","o","m","e"," ","-"," ","F","M">>, income>>,
    <<<<"I","n","c","o","m","e"," ","-"," ","M","c","D">>, income>>,
    <<<<"I","n","c","o","m","e"," ","-"," ","O","u","t","l","i","e","r">>, income>>,
    <<<<"I","n","c","o","m","e"," ","-"," ","G","i","f","t","s">>, income>>,
    <<<<"T","i","t","h","e">>, giving>>,
    <<<<"O","f","f","e","r","i","n","g","s">>, giving>>,
    <<<<"C","h","a","r","i","t","y"," ","-"," ","P","e","r","e","z"," ","U","n","i">>, giving>>,
    <<<<"C","h","a","r","i","t","y"," ","-"," ","J","P","C"," ","U","t","i","l","i","t","i","e","s">>, giving>>,
    <<<<"D","o","n","a","t","i","o","n","s"," ","(","V","a","r","i","a","b","l","e",")">>, giving>>,
    <<<<"R","e","n","t">>, bill>>,
    <<<<"I","n","s","u","r","a","n","c","e">>, bill>>,
    <<<<"R","o","a","d"," ","T","a","x">>, bill>>,
    <<<<"W","a","t","e","r"," ","B","i","l","l">>, bill>>,
    <<<<"C","o","m","m","u","n","i","t","y"," ","F","i","b","r","e"," ","/"," ","I","n","t","e","r","n","e","t">>, bill>>,
    <<<<"E","l","e","c","t","r","i","c","i","t","y"," ","&"," ","G","a","s">>, bill>>,
    <<<<"i","P","h","o","n","e"," ","P","a","y","m","e","n","t","s">>, bill>>,
    <<<<"P","a","r","e","n","t","s">>, bill>>,
    <<<<"C","r","e","d","i","t"," ","C","a","r","d"," ","P","a","y","m","e","n","t">>, bill>>,
    <<<<"F","u","e","l">>, bill>>,
    <<<<"H","o","u","s","e"," ","K","e","e","p">>, bill>>,
    <<<<"L","a","p","t","o","p">>, bill>>,
    <<<<"O","n","e","-","O","f","f"," ","G","i","v","i","n","g"," ","(","C","h","r","i","s","t","m","a","s",")">>, bill>>,
    <<<<"F","o","o","d">>, bill>>,
    <<<<"O","t","h","e","r","s">>, bill>>,
    <<<<"S","a","v","i","n","g","s"," ","T","r","a","n","s","f","e","r">>, savings>> >>

\* category_totals[category] += amount, on a defaultdict(float)
defaultdict_float_add(d, k, amt) ==
    [x \in DOMAIN d \cup {k} |->
        IF x = k THEN (IF k \in DOMAIN d THEN d[k] ELSE 0) + amt ELSE d[x]]

\* the loop body, for one row
gen_final_transactions_row(row) ==
    /\ script = "gen_final_transactions"
    /\ pc = "loop"
    /\ nrows < MaxRows
    /\ nrows' = nrows + 1
    /\ LET date_val == row.A
           type_val == row.B
           col_c_val == row.C
           label_val == row.D
           amount_val == row.E
           f == py_float(amount_val)
           col_c_str == str_strip(py_str(col_c_val))
           is_transfer == truthy(type_val) /\ str_contains(<<"T","r","a","n","s","f","e","r">>, py_str(type_val))
           txn_type == IF f.v > 0 THEN income ELSE IF is_transfer THEN transfer ELSE outflow
           amount == IF f.v > 0 THEN f.v ELSE py_abs(f.v)
           category == IF f.v > 0 THEN income
                       ELSE IF is_transfer
                       THEN dict_get(gen_final_transactions_CATEGORY_MAPPING, col_c_str, savings)
                       ELSE dict_get(gen_final_transactions_CATEGORY_MAPPING, col_c_str, bill)
       IN IF \/ ~truthy(date_val) \/ ~truthy(col_c_val) \/ ~truthy(amount_val)
             \/ date_val.t # "datetime"
             \/ ~(datetime_le(period1_start, date_val) /\ datetime_le(date_val, period1_end))
             \/ amount_val = Num(0)
             \/ ~f.ok
          THEN UNCHANGED <<transactions, txn_id, app_category_totals>>
          ELSE /\ txn_id' = txn_id + 1
               /\ transactions' = Append(transactions,
                    [id |-> Str(txn_id_str(txn_id')),
                     date |-> Str(strftime(date_val)),
                     label |-> label_val,
                     amount |-> Num(amount),
                     type |-> Str(txn_type),
                     category |-> Str(category),
                     notes |-> Str(col_c_str)])
               /\ app_category_totals' = defaultdict_float_add(app_category_totals, category, amount)
    /\ UNCHANGED <<script, pc, workbook, categories_in_transactions, unmapped, files>>
    /\ UNCHANGED <<actuals, report>>

\* after the loop: write the JSON file, then render the TypeScript lines
\* (txn["label"].replace raises AttributeError on a None label) and write them
gen_final_transactions_save ==
    /\ script = "gen_final_transactions"
    /\ pc = "loop"
    /\ LET json == write_file(files, "period1_transactions_final.json", transactions)
       IN IF \E i \in 1..Len(transactions) : transactions[i].label.t # "str"
          THEN files' = json /\ pc' = "crashed"
          ELSE /\ files' = write_file(json, "period1_transactions_final.ts",
                                      [i \in 1..Len(transactions) |-> ts_line(transactions[i])])
               /\ pc' = "done"
    /\ UNCHANGED <<script, workbook, categories_in_transactions, nrows, transactions,
                   app_category_totals, unmapped, txn_id>>
    /\ UNCHANGED <<actuals, report>>

-----------------------------------------------------------------------------
(* extract_corrected.py                                                    *)
bills_schedule_map == <<
    <<<<"R","e","n","t">>, bill>>,
    <<<<"I","n","s","u","r","a","n","c","e">>, bill>>,
    <<<<"R","o","a","d"," ","T","a","x">>, bill>>,
    <<<<"W","a","t","e","r"," ","B","i","l","l">>, bill>>,
    <<<<"C","o","m","m","u","n","i","t","y"," ","F","i","b","r","e"," ","/"," ","I","n","t","e","r","n","e","t">>, bill>>,
    <<<<"E","l","e","c","t","r","i","c","i","t","y"," ","&"," ","G","a","s">>, bill>>,
    <<<<"E","l","e","c","t","r","i","c","i","t","y">>, bill>>,
    <<<<"G","a","s">>, bill>>,
    <<<<"G","a","s"," ","f","o","r"," ","h","o","u","s","e">>, bill>>,
    <<<<"i","P","h","o","n","e"," ","P","a","y","m","e","n","t","s">>, bill>>,
    <<<<"S","k","y","M","o","b","i","l","e">>, bill>>,
    <<<<"C","a","r"," ","i","n","s","u","r","a","n","c","e">>, bill>>,
    <<<<"C","a","r"," ","I","n","s","u","r","a","n","c","e">>, bill>>,
    <<<<"T","i","t","h","e">>, giving>>,
    <<<<"F","M"," ","T","i","t","h","e">>, giving>>,
    <<<<"O","f","f","e","r","i","n","g","s">>, giving>>,
    <<<<"B","u","r","n","t"," ","o","f","f","e","r","i","n","g">>, giving>>,
    <<<<"B","u","r","n","e","d"," ","o","f","f","e","r","i","n","g">>, giving>>,
    <<<<"T","h","a","n","k","s","g","i","v","i","n","g"," ","O","f","f","e","r","i","n","g">>, giving>>,
    <<<<"C","h","a","r","i","t","y"," ","-"," ","P","e","r","e","z"," ","U","n","i">>, giving>>,
    <<<<"C","h","a","r","i","t","y"," ","-"," ","J","P","C"," ","U","t","i","l","i","t","i","e","s">>, giving>>,
    <<<<"G","i","f","t","s">>, giving>>,
    <<<<"G","i","f","t"," ","f","r","o","m"," ","H","o","n","e","y">>, giving>>,
    <<<<"G","i","f","t"," ","t","o">>, giving>>,
    <<<<"D","o","n","a","t","i","o","n","s"," ","(","V","a","r","i","a","b","l","e",")">>, giving>>,
    <<<<"P","a","r","e","n","t","s">>, bill>>,
    <<<<"C","r","e","d","i","t"," ","C","a","r","d"," ","P","a","y","m","e","n","t">>, bill>>,
    <<<<"F","u","e","l">>, bill>>,
    <<<<"H","o","u","s","e"," ","K","e","e","p">>, allowance>>,
    <<<<"L","a","p","t","o","p">>, bill>>,
    <<<<"O","n","e","-","O","f","f"," ","G","i","v","i","n","g"," ","(","C","h","r","i","s","t","m","a","s",")">>, other>>,
    <<<<"F","o","o","d">>, allowance>>,
    <<<<"G","r","o","c","e","r","i","e","s">>, allowance>>,
    <<<<"S","a","i","n","s","b","u","r","y","'","s">>, allowance>>,
    <<<<"T","e","s","c","o">>, allowance>>,
    <<<<"C","o","s","t","c","o">>, allowance>>,
    <<<<"H","o","l","l","a","n","d"," ","b","a","z","a","a","r">>, allowance>>,
    <<<<"F","i","s","h"," ","M","a","r","k","e","t">>, allowance>>,
    <<<<"H","a","l","a","l">>, allowance>>,
    <<<<"D","e","l","i","v","e","r","o","o">>, allowance>>,
    <<<<"U","b","e","r"," ","e","a","t","s">>, allowance>>,
    <<<<"K","F","C">>, allowance>>,
    <<<<"B","o","b","a">>, allowance>>,
    <<<<"F","r","i","e","d"," ","r","i","c","e">>, allowance>>,
    <<<<"C","h","i","n","e","s","e"," ","f","r","i","e","d"," ","r","i","c","e">>, allowance>>,
    <<<<"K","e","n","k","e","y">>, allowance>>,
    <<<<"T","u","n","a">>, allowance>>,
    <<<<"T","f","L">>, allowance>>,
    <<<<"T","r","a","n","s","p","o","r","t">>, allowance>>,
    <<<<"U","b","e","r">>, allowance>>,
    <<<<"U","b","e","r"," ","t","o">>, allowance>>,
    <<<<"B","o","l","t">>, allowance>>,
    <<<<"S","u","b","s","c","r","i","p","t","i","o","n","s">>, allowance>>,
    <<<<"B","a","t","t","e","r","y">>, allowance>>,
    <<<<"W","i","p","e","s">>, allowance>>,
    <<<<"C","e","r","e","l","a","c">>, allowance>>,
    <<<<"B","o","d","y"," ","w","a","s","h">>, allowance>>,
    <<<<"W","a","t","e","r">>, allowance>>,
    <<<<"L","e","b","a","r","a">>, allowance>>,
    <<<<"K","i","t","K","a","t","t">>, allowance>>,
    <<<<"O","p","e","n","A","I">>, allowance>>,
    <<<<"M","o","n","z","o"," ","p","a","y","m","e","n","t">>, other>>,
    <<<<"C","a","p","i","t","a","l"," ","o","n","e">>, other>>,
    <<<<"B","a","r","c","l","a","y","s">>, other>>,
    <<<<"I","n","t","e","r","n","e","t">>, bill>>,
    <<<<"C","o","m","m","u","n","i","t","y"," ","f","i","b","r","e">>, bill>>,
    <<<<"S","a","c","r","i","f","i","c","e">>, other>>,
    <<<<"U","t","i","l","i","t","y">>, other>>,
    <<<<"M","u","m","m","y">>, other>>,
    <<<<"G","i","f","t">>, other>>,
    <<<<"R","e","n","t"," ","f","o","r">>, bill>>,
    <<<<"M","o","n","z","o">>, other>>,
    <<<<"S","t","o","c","k","s"," ","a","n","d"," ","S","h","a","r","e","s">>, savings>>,
    <<<<"M","o","n","e","y"," ","B","o","x">>, savings>>,
    <<<<"T","r","a","n","s","f","e","r"," ","t","o">>, savings>>,
    <<<<"T","o","w","i","n","g">>, allowance>>,
    <<<<"F","i","x","i","n","g">>, allowance>>,
    <<<<"P","o","s","t"," ","o","f","f","i","c","e">>, allowance>>,
    <<<<"F","u","e","l"," ","f","o","r">>, allowance>>,
    <<<<"H","o","s","t","i","n","g">>, allowance>>,
    <<<<"I","n","g","r","e","d","i","e","n","t","s">>, allowance>>,
    <<<<"C","a","k","e">>, allowance>> >>

excel_cat_map == <<
    <<<<"i","n","c","o","m","e">>, income>>,
    <<<<"I","n","c","o","m","e"," ","-"," ","F","M">>, income>>,
    <<<<"I","n","c","o","m","e"," ","-"," ","M","c","D">>, income>>,
    <<<<"I","n","c","o","m","e"," ","-"," ","O","u","t","l","i","e","r">>, income>>,
    <<<<"I","n","c","o","m","e"," ","-"," ","G","i","f","t","s">>, income>>,
    <<<<"O","u","t","l","i","e","r">>, income>>,
    <<<<"D","e","c","e","m","b","e","r"," ","S","a","l","a","r","y">>, income>>,
    <<<<"I","n","t","e","r","e","s","t">>, income>> >>

\* key.lower() for every key of a table, in table order
lower_keys(table) == [i \in 1..Len(table) |-> str_lower(table[i][1])]

bills_schedule_map_lower == lower_keys(bills_schedule_map)

excel_cat_map_lower == lower_keys(excel_cat_map)

\* for key, cat in table.items(): if key.lower() in label_lower: return cat
\* -> the index of the first such item, 0 when the loop falls through
first_match(keys_lower, label_lower) ==
    LET hits == {i \in 1..Len(keys_lower) : str_contains(keys_lower[i], label_lower)}
    IN IF hits = {} THEN 0 ELSE CHOOSE i \in hits : \A j \in hits : i <= j

\* map_category(label, category_from_excel) -> a Python value
map_category(label, category_from_excel) ==
    LET label_lower == str_lower(label)
        b == first_match(bills_schedule_map_lower, label_lower)
        e == first_match(excel_cat_map_lower, label_lower)
    IN IF b # 0 THEN Str(bills_schedule_map[b][2])
       ELSE IF e # 0 THEN Str(excel_cat_map[e][2])
       ELSE IF truthy(category_from_excel) THEN category_from_excel
       ELSE Str(other)

\* the loop body, for one row
extract_corrected_row(row) ==
    /\ script = "extract_corrected"
    /\ pc = "loop"
    /\ nrows < MaxRows
    /\ nrows' = nrows + 1
    /\ LET date == row.A
           type_val == row.B
           category == row.C
           description == row.D
           amount == row.E
           period == row.I
           label == py_str(py_or(description, py_or(category, Str(<<>>))))
           is_transfer == str_contains(<<"T","r","a","n","s","f","e","r">>, py_str(type_val))
           is_income == type_val = Str(<<"I","n","c","o","m","e">>) \/ str_contains(<<"I","n","c","o","m","e">>, py_str(category))
           txn_type == IF is_transfer THEN transfer ELSE IF is_income THEN income ELSE outflow
           app_cat == IF is_transfer THEN Str(savings)
                      ELSE IF is_income THEN Str(income)
                      ELSE map_category(label, category)
           f == py_float(amount)
       IN IF \/ ~truthy(date) \/ ~truthy(type_val) \/ ~truthy(amount) \/ ~truthy(period)
             \/ period # Num(1)
             \/ date.t # "datetime"
          THEN UNCHANGED <<pc, transactions>>
          ELSE IF ~f.ok
          THEN pc' = "crashed" /\ UNCHANGED transactions
          ELSE /\ transactions' = Append(transactions,
                    [id |-> Str(txn_id_str(Len(transactions) + 1)),
                     date |-> Str(strftime(date)),
                     label |-> Str(label),
                     amount |-> Num(py_abs(f.v)),
                     type |-> Str(txn_type),
                     category |-> app_cat,
                     notes |-> category,
                     linkedRuleId |-> IF app_cat = Str(savings) THEN Str(savings) ELSE None])
               /\ pc' = pc
    /\ UNCHANGED <<script, workbook, categories_in_transactions, app_category_totals, unmapped,
                   txn_id, files>>
    /\ UNCHANGED <<actuals, report>>

\* after the loop: sort newest first and write the JSON file
extract_corrected_save ==
    /\ script = "extract_corrected"
    /\ pc = "loop"
    /\ transactions' = sort_by_date_reverse(transactions)
    /\ files' = write_file(files, "period1_transactions_corrected.json", transactions')
    /\ pc' = "done"
    /\ UNCHANGED <<script, workbook, categories_in_transactions, nrows, app_category_totals,
                   unmapped, txn_id>>
    /\ UNCHANGED <<actuals, report>>

-----------------------------------------------------------------------------
(* calc_corrected_variance.py                                              *)

\* s.strip('"')
RECURSIVE strip_quotes(_)
strip_quotes(s) ==
    IF s # <<>> /\ Head(s) = "\"" THEN strip_quotes(Tail(s))
    ELSE IF s # <<>> /\ s[Len(s)] = "\"" THEN strip_quotes(SubSeq(s, 1, Len(s) - 1))
    ELSE s

\* the text "s" as a quoted group of the pattern captures it
quoted(s) == <<"\"">> \o s \o <<"\"">>

buffer == <<"b","u","f","f","e","r">>

\* the amounts [\d.]+ captures: two-decimal amounts and a text float() rejects
AmountTexts == {<<"4","0","0">>, <<"4","1","0">>, <<"4","1","0",".","0","1">>, <<"4","0","9",".","9","9">>, <<"1",".","2",".","3">>}

\* the ids of the records in plan.ts
MatchIds == {1, 2}

\* the tuples re.findall returns for the transaction literals of plan.ts
Matches ==
    {[txn_id |-> quoted(txn_id_str(n)), date |-> quoted(<<"2","0","2","6","-","0","1","-","0","5">>), label |-> quoted(<<"S","h","o","p">>),
      amount |-> a, type |-> quoted(t), category |-> quoted(c), notes |-> quoted(<<"T","i","t","h","e">>)] :
        n \in MatchIds, a \in AmountTexts, t \in {income, outflow, transfer},
        c \in {income, bill, giving, allowance, savings, buffer}}

\* d[k] = v on a dict held as its item list (a present key keeps its place)
dict_set(d, k, v) ==
    IF dict_has(d, k)
    THEN [i \in 1..Len(d) |-> IF d[i][1] = k THEN <<k, v>> ELSE d[i]]
    ELSE Append(d, <<k, v>>)

\* the first loop body, for one match
calc_corrected_variance_match(match) ==
    /\ script = "calc_corrected_variance"
    /\ pc = "loop"
    /\ nrows < MaxRows
    /\ nrows' = nrows + 1
    /\ LET f == py_float(Str(match.amount))
       IN IF ~f.ok
          THEN pc' = "crashed" /\ UNCHANGED transactions
          ELSE /\ transactions' = dict_set(transactions, match.txn_id,
                    [date |-> match.date,
                     label |-> strip_quotes(match.label),
                     amount |-> f.v,
                     type |-> strip_quotes(match.type),
                     category |-> strip_quotes(match.category),
                     notes |-> strip_quotes(match.notes)])
               /\ pc' = pc
    /\ UNCHANGED <<script, workbook, categories_in_transactions, app_category_totals, unmapped,
                   txn_id, files, actuals, report>>

\* actuals.get(k, 0)
actuals_get(a, k) == IF k \in DOMAIN a THEN a[k] ELSE 0

\* actuals[k] = v
actuals_set(a, k, v) == [x \in DOMAIN a \cup {k} |-> IF x = k THEN v ELSE a[x]]

\* the second loop without the type test: every record counts under its category
RECURSIVE calc_corrected_variance_actuals_any_type(_, _)
calc_corrected_variance_actuals_any_type(items, acc) ==
    IF items = <<>> THEN acc
    ELSE LET txn == Head(items)[2]
         IN calc_corrected_variance_actuals_any_type(Tail(items),
                actuals_set(acc, txn.category, actuals_get(acc, txn.category) + txn.amount))

\* the second loop: for txn_id, txn in transactions.items()
RECURSIVE calc_corrected_variance_actuals(_, _)
calc_corrected_variance_actuals(items, acc) ==
    IF items = <<>> THEN acc
    ELSE LET txn == Head(items)[2]
             cat == txn.category
             amt == txn.amount
             a0 == IF cat \notin DOMAIN acc THEN actuals_set(acc, cat, 0) ELSE acc
             a1 == IF txn.type = income THEN actuals_set(a0, income, actuals_get(a0, income) + amt)
                   ELSE IF txn.type = transfer THEN a0
                   ELSE actuals_set(a0, cat, actuals_get(a0, cat) + amt)
         IN calc_corrected_variance_actuals(Tail(items), a1)

income_budget == 4700

calc_corrected_variance_bill_items == <<
    <<<<"R","e","n","t">>, 550>>,
    <<<<"I","n","s","u","r","a","n","c","e">>, 175>>,
    <<<<"R","o","a","d"," ","T","a","x">>, 34>>,
    <<<<"W","a","t","e","r"," ","B","i","l","l">>, 93>>,
    <<<<"E","l","e","c","t","r","i","c","i","t","y"," ","&"," ","G","a","s">>, 200>>,
    <<<<"C","o","m","m","u","n","i","t","y"," ","F","i","b","r","e"," ","/"," ","I","n","t","e","r","n","e","t">>, 37>>,
    <<<<"i","P","h","o","n","e"," ","P","a","y","m","e","n","t","s">>, 108>>,
    <<<<"P","a","r","e","n","t","s">>, 140>>,
    <<<<"C","r","e","d","i","t"," ","C","a","r","d"," ","P","a","y","m","e","n","t">>, 400>>,
    <<<<"F","u","e","l">>, 100>>,
    <<<<"H","o","u","s","e"," ","K","e","e","p">>, 560>>,
    <<<<"L","a","p","t","o","p">>, 43>>,
    <<<<"O","n","e","-","O","f","f"," ","G","i","v","i","n","g"," ","(","C","h","r","i","s","t","m","a","s",")">>, 500>> >>

calc_corrected_variance_giving_items == <<
    <<<<"T","i","t","h","e">>, 410>>,
    <<<<"O","f","f","e","r","i","n","g","s">>, 165>>,
    <<<<"C","h","a","r","i","t","y"," ","-"," ","P","e","r","e","z"," ","U","n","i">>, 50>>,
    <<<<"C","h","a","r","i","t","y"," ","-"," ","J","P","C"," ","U","t","i","l","i","t","i","e","s">>, 100>>,
    <<<<"D","o","n","a","t","i","o","n","s"," ","(","V","a","r","i","a","b","l","e",")">>, 90>> >>

\* sum(d.values())
RECURSIVE sum_values(_)
sum_values(d) == IF d = <<>> THEN 0 ELSE Head(d)[2] + sum_values(Tail(d))

allowance_budget == 150 + 150

savings_budget == 1050

\* budgets, in pounds
calc_corrected_variance_budgets == <<
    <<income, income_budget>>,
    <<bill, sum_values(calc_corrected_variance_bill_items)>>,
    <<giving, sum_values(calc_corrected_variance_giving_items)>>,
    <<allowance, allowance_budget>>,
    <<savings, savings_budget>> >>

\* the tolerance band of the status, in pounds
Tolerance == 5

\* the status with the upper bound of the band excluded (>= 5)
calc_corrected_variance_status_ge(variance) ==
    IF variance >= 100 * Tolerance THEN <<"O","V","E","R">>
    ELSE IF variance < 0 - 100 * Tolerance THEN <<"U","N","D","E","R">>
    ELSE <<"O","K">>

\* "OVER" if variance > 5 else "UNDER" if variance < -5 else "OK"
calc_corrected_variance_status(variance) ==
    IF variance > 100 * Tolerance THEN <<"O","V","E","R">>
    ELSE IF variance < 0 - 100 * Tolerance THEN <<"U","N","D","E","R">>
    ELSE <<"O","K">>

\* after the first loop: the actuals, then one report line per category
calc_corrected_variance_report ==
    /\ script = "calc_corrected_variance"
    /\ pc = "loop"
    /\ actuals' = calc_corrected_variance_actuals(transactions, <<>>)
    /\ report' = [i \in 1..5 |->
          LET cat == <<income, bill, giving, allowance, savings>>[i]
              budget == 100 * dict_get(calc_corrected_variance_budgets, cat, 0)
              actual == actuals_get(actuals', cat)
              variance == actual - budget
          IN [category |-> cat, budget |-> budget, actual |-> actual, variance |-> variance,
              status |-> calc_corrected_variance_status(variance)]]
    /\ pc' = "done"
    /\ UNCHANGED <<script, workbook, categories_in_transactions, nrows, transactions,
                   app_category_totals, unmapped, txn_id, files>>

-----------------------------------------------------------------------------
(* verify_variance.py                                                      *)

\* budgets, in pounds
verify_variance_budgets == <<
    <<income, 4700>>,
    <<bill, 550 + 175 + 34 + 93 + 37 + 200 + 108 + 140 + 400 + 100 + 43>>,
    <<giving, 410 + 165 + 50 + 100>>,
    <<allowance, 560>>,
    <<savings, 1050>>,
    <<other, 500>> >>

\* actuals, in pence (5319.49, 1829.55, 906.16, 1052.01, 860.00, 457.37)
verify_variance_actuals == <<
    <<income, 531949>>,
    <<bill, 182955>>,
    <<giving, 90616>>,
    <<allowance, 105201>>,
    <<savings, 86000>>,
    <<other, 45737>> >>

\* excel_budgets, in pounds
verify_variance_excel_budgets == <<
    <<<<"I","N","C","O","M","E">>, 4700>>,
    <<<<"F","I","X","E","D"," ","(","b","i","l","l","s",")">>, 2440>>,
    <<<<"G","I","V","I","N","G">>, 815>>,
    <<<<"V","A","R","I","A","B","L","E"," ","(","a","l","l","o","w","a","n","c","e","/","f","o","o","d",")">>, 300>>,
    <<<<"S","A","V","I","N","G","S">>, 1050>>,
    <<<<"O","N","E","-","O","F","F">>, 500>> >>

\* bill_items, in pounds
verify_variance_bill_items == <<
    <<<<"R","e","n","t">>, 550>>,
    <<<<"I","n","s","u","r","a","n","c","e">>, 175>>,
    <<<<"R","o","a","d"," ","T","a","x">>, 34>>,
    <<<<"W","a","t","e","r">>, 93>>,
    <<<<"I","n","t","e","r","n","e","t">>, 37>>,
    <<<<"E","l","e","c","t","r","i","c","i","t","y"," ","&"," ","G","a","s">>, 200>>,
    <<<<"i","P","h","o","n","e">>, 108>>,
    <<<<"P","a","r","e","n","t","s">>, 140>>,
    <<<<"C","r","e","d","i","t"," ","C","a","r","d">>, 400>>,
    <<<<"F","u","e","l">>, 100>>,
    <<<<"L","a","p","t","o","p">>, 43>> >>

\* giving_items, in pounds
verify_variance_giving_items == <<
    <<<<"T","i","t","h","e">>, 410>>,
    <<<<"O","f","f","e","r","i","n","g","s">>, 165>>,
    <<<<"C","h","a","r","i","t","y"," ","-"," ","P","e","r","e","z"," ","U","n","i">>, 50>>,
    <<<<"C","h","a","r","i","t","y"," ","-"," ","J","P","C"," ","U","t","i","l","i","t","i","e","s">>, 100>> >>

\* bill_total = sum(bill_items.values())
verify_variance_bill_total == sum_values(verify_variance_bill_items)

\* giving_total = sum(giving_items.values())
verify_variance_giving_total == sum_values(verify_variance_giving_items)

\* "OVER" if variance > 5 else "UNDER" if variance < -5 else "OK"
verify_variance_status(variance) ==
    IF variance > 100 * Tolerance THEN <<"O","V","E","R">>
    ELSE IF variance < 0 - 100 * Tolerance THEN <<"U","N","D","E","R">>
    ELSE <<"O","K">>

\* the whole script: one report line per category
verify_variance_report ==
    /\ script = "verify_variance"
    /\ pc = "loop"
    /\ report' = [i \in 1..6 |->
          LET category == <<income, bill, giving, allowance, savings, other>>[i]
              budgeted == 100 * dict_get(verify_variance_budgets, category, 0)
              actual == dict_get(verify_variance_actuals, category, 0)
              variance == actual - budgeted
          IN [category |-> category, budget |-> budgeted, actual |-> actual, variance |-> variance,
              status |-> verify_variance_status(variance)]]
    /\ pc' = "done"
    /\ UNCHANGED <<script, workbook, categories_in_transactions, nrows, transactions,
                   app_category_totals, unmapped, txn_id, files, actuals>>

-----------------------------------------------------------------------------
(* gen_correct_transactions.py                                             *)

gen_correct_transactions_category_mapping == <<
    <<<<"I","n","c","o","m","e"," ","-"," ","F","M">>, income>>,
    <<<<"I","n","c","o","m","e"," ","-"," ","M","c","D">>, income>>,
    <<<<"I","n","c","o","m","e"," ","-"," ","O","u","t","l","i","e","r">>, income>>,
    <<<<"I","n","c","o","m","e"," ","-"," ","G","i","f","t","s">>, income>>,
    <<<<"H","o","u","s","e"," ","K","e","e","p">>, bill>>,
    <<<<"E","l","e","c","t","r","i","c","i","t","y"," ","&"," ","G","a","s">>, bill>>,
    <<<<"W","a","t","e","r"," ","B","i","l","l">>, bill>>,
    <<<<"R","e","n","t">>, bill>>,
    <<<<"I","n","s","u","r","a","n","c","e">>, bill>>,
    <<<<"R","o","a","d"," ","T","a","x">>, bill>>,
    <<<<"C","o","m","m","u","n","i","t","y"," ","F","i","b","r","e"," ","/"," ","I","n","t","e","r","n","e","t">>, bill>>,
    <<<<"I","n","t","e","r","n","e","t">>, bill>>,
    <<<<"i","P","h","o","n","e"," ","P","a","y","m","e","n","t","s">>, bill>>,
    <<<<"P","a","r","e","n","t","s">>, bill>>,
    <<<<"C","r","e","d","i","t"," ","C","a","r","d"," ","P","a","y","m","e","n","t">>, bill>>,
    <<<<"F","u","e","l">>, bill>>,
    <<<<"L","a","p","t","o","p">>, bill>>,
    <<<<"O","n","e","-","O","f","f"," ","G","i","v","i","n","g"," ","(","C","h","r","i","s","t","m","a","s",")">>, bill>>,
    <<<<"T","i","t","h","e">>, giving>>,
    <<<<"O","f","f","e","r","i","n","g","s">>, giving>>,
    <<<<"C","h","a","r","i","t","y"," ","-"," ","P","e","r","e","z"," ","U","n","i">>, giving>>,
    <<<<"C","h","a","r","i","t","y"," ","-"," ","J","P","C"," ","U","t","i","l","i","t","i","e","s">>, giving>>,
    <<<<"D","o","n","a","t","i","o","n","s"," ","(","V","a","r","i","a","b","l","e",")">>, giving>>,
    <<<<"O","t","h","e","r","s">>, allowance>>,
    <<<<"U","b","e","r"," ","-"," ","T","f","L">>, allowance>>,
    <<<<"F","o","o","d">>, bill>>,
    <<<<"S","a","v","i","n","g","s"," ","T","r","a","n","s","f","e","r">>, savings>> >>

\* sorted(transactions, key=lambda x: x['date']): stable, oldest first
RECURSIVE sort_by_date(_)
sort_by_date(s) ==
    IF s = <<>> THEN <<>>
    ELSE LET x == s[Len(s)]
             r == sort_by_date(SubSeq(s, 1, Len(s) - 1))
             higher == {j \in 1..Len(r) : str_lt(x.date.v, r[j].date.v)}
             k == IF higher = {} THEN Len(r) + 1 ELSE CHOOSE j \in higher : \A i \in higher : j <= i
         IN SubSeq(r, 1, k - 1) \o <<x>> \o SubSeq(r, k, Len(r))

\* if col_b_type and 'income' in col_b_type.lower(): 'income'
\* elif col_b_type and 'transfer' in col_d_desc.lower(): 'transfer'
\* else: 'outflow'
\* (col_d_desc.lower() raises AttributeError when the description is None)
gen_correct_transactions_tx_type(col_b_type, col_d_desc) ==
    IF truthy(col_b_type) /\ str_contains(<<"i","n","c","o","m","e">>, str_lower(py_str(col_b_type)))
    THEN [ok |-> TRUE, v |-> income]
    ELSE IF truthy(col_b_type)
    THEN IF col_d_desc.t # "str" THEN [ok |-> FALSE]
         ELSE IF str_contains(<<"t","r","a","n","s","f","e","r">>, str_lower(col_d_desc.v))
         THEN [ok |-> TRUE, v |-> transfer]
         ELSE [ok |-> TRUE, v |-> outflow]
    ELSE [ok |-> TRUE, v |-> outflow]

\* category_distribution[app_category] += 1
gen_correct_transactions_count(d, k) ==
    [x \in DOMAIN d \cup {k} |-> IF x = k THEN (IF k \in DOMAIN d THEN d[k] ELSE 0) + 1 ELSE d[x]]

\* one line of the TypeScript file: the values interpolated into the literal
\* { id: "txn-{i}", date: "..", label: "..", amount: .., type: "..",
\*   category: "..", notes: "..", linkedRuleId: undefined },
gen_correct_transactions_ts_line(i, txn) ==
    [id |-> txn_id_str(i), date |-> txn.date.v, label |-> py_str(txn.label),
     amount |-> txn.amount.v, type |-> txn.type.v, category |-> txn.category.v,
     notes |-> py_str(txn.notes)]

\* the loop body, for one row
gen_correct_transactions_row(row) ==
    /\ script = "gen_correct_transactions"
    /\ pc = "loop"
    /\ nrows < MaxRows
    /\ nrows' = nrows + 1
    /\ LET date_val == row.A
           col_b_type == row.B
           col_c_category == row.C
           col_d_desc == row.D
           col_e_amount == row.E
           app_category == dict_get_value(gen_correct_transactions_category_mapping, col_c_category, other)
           tx_type == gen_correct_transactions_tx_type(col_b_type, col_d_desc)
           f == IF truthy(col_e_amount) THEN py_float(col_e_amount) ELSE [ok |-> TRUE, v |-> 0]
       IN IF \/ ~truthy(date_val)
             \/ date_val.t # "datetime"
             \/ ~(datetime_le(period1_start, date_val) /\ datetime_le(date_val, period1_end))
          THEN UNCHANGED <<pc, transactions, app_category_totals>>
          ELSE IF ~tx_type.ok \/ ~f.ok
          THEN pc' = "crashed" /\ UNCHANGED <<transactions, app_category_totals>>
          ELSE /\ transactions' = Append(transactions,
                    [date |-> Str(strftime(date_val)),
                     label |-> py_or(col_d_desc, Str(<<>>)),
                     amount |-> Num(f.v),
                     type |-> Str(tx_type.v),
                     category |-> Str(app_category),
                     notes |-> col_c_category,
                     col_c_category |-> col_c_category])
               /\ app_category_totals' = gen_correct_transactions_count(app_category_totals, app_category)
               /\ pc' = pc
    /\ UNCHANGED <<script, workbook, categories_in_transactions, unmapped, txn_id, files>>
    /\ UNCHANGED <<actuals, report>>

\* after the loop: sort oldest first, print the distributions (the
\* f"{cat:35s}" of a None category raises TypeError), write the JSON file and
\* the TypeScript lines
gen_correct_transactions_save ==
    /\ script = "gen_correct_transactions"
    /\ pc = "loop"
    /\ transactions' = sort_by_date(transactions)
    /\ IF \E i \in 1..Len(transactions) : transactions[i].col_c_category.t # "str"
       THEN pc' = "crashed" /\ UNCHANGED files
       ELSE /\ files' = write_file(
                    write_file(files, "period1_correct_transactions.json", transactions'),
                    "period1_transactions.ts",
                    [i \in 1..Len(transactions') |-> gen_correct_transactions_ts_line(i, transactions'[i])])
            /\ pc' = "done"
    /\ UNCHANGED <<script, workbook, categories_in_transactions, nrows, app_category_totals,
                   unmapped, txn_id>>
    /\ UNCHANGED <<actuals, report>>

-----------------------------------------------------------------------------
(* gen_plan_transactions.py, gen_correct_ts.py, gen_full_transactions.py   *)

\* f"{v}" of a value read from JSON: null, a string, or a number (repr of the
\* float p/100 with p in pence; the amount 0 is the int 0 that
\* gen_correct_transactions.py stores for an empty amount cell)
fstring(v) ==
    CASE v.t = "None" -> <<"N","o","n","e">>
      [] v.t = "str" -> v.v
      [] v.t = "num" ->
            LET a == py_abs(v.v)
                frac == IF a % 100 = 0 THEN <<"0">>
                        ELSE IF a % 10 = 0 THEN int_str((a % 100) \div 10)
                        ELSE zero_pad(int_str(a % 100), 2)
            IN IF v.v = 0 THEN <<"0">>
               ELSE (IF v.v < 0 THEN <<"-">> ELSE <<>>) \o int_str(a \div 100) \o <<".">> \o frac

\* sep.join(lines)
RECURSIVE str_join(_, _)
str_join(sep, lines) ==
    IF lines = <<>> THEN <<>>
    ELSE IF Len(lines) = 1 THEN lines[1]
    ELSE lines[1] \o sep \o str_join(sep, Tail(lines))

\* the record literal the three generators interpolate:
\* { id: "..", date: "..", label: "..", amount: .., type: "..", category: "..",
\*   notes: "..", linkedRuleId: .. }
ts_literal(id, txn, linked_rule) ==
    LET q == <<"\"">>
    IN <<"{"," ","i","d",":"," ">> \o q \o id \o q
       \o <<","," ","d","a","t","e",":"," ">> \o q \o fstring(txn.date) \o q
       \o <<","," ","l","a","b","e","l",":"," ">> \o q \o fstring(txn.label) \o q
       \o <<","," ","a","m","o","u","n","t",":"," ">> \o fstring(txn.amount)
       \o <<","," ","t","y","p","e",":"," ">> \o q \o fstring(txn.type) \o q
       \o <<","," ","c","a","t","e","g","o","r","y",":"," ">> \o q \o fstring(txn.category) \o q
       \o <<","," ","n","o","t","e","s",":"," ">> \o q \o fstring(txn.notes) \o q
       \o <<","," ","l","i","n","k","e","d","R","u","l","e","I","d",":"," ">> \o linked_rule \o <<" ","}">>

\* f'"{txn["linkedRuleId"]}"' if txn.get('linkedRuleId') else 'undefined'
linked_rule(txn) ==
    IF "linkedRuleId" \in DOMAIN txn /\ truthy(txn.linkedRuleId)
    THEN <<"\"">> \o fstring(txn.linkedRuleId) \o <<"\"">>
    ELSE <<"u","n","d","e","f","i","n","e","d">>

\* the keys a renderer reads with txn[...] are keys of the record
has_keys(txn, keys) == keys \subseteq DOMAIN txn

\* (',', '')[i == len(transactions)]
gen_plan_transactions_suffix(i, n) == IF i = n THEN <<>> ELSE <<",">>

\* gen_plan_transactions.py: json.load, one line per record, ',\n'.join, write
gen_plan_transactions_run ==
    /\ pc = "done"
    /\ "period1_correct_transactions.json" \in DOMAIN files
    /\ script' = "gen_plan_transactions"
    /\ transactions' = files["period1_correct_transactions.json"]
    /\ LET n == Len(transactions')
           ts_code == [i \in 1..n |->
                          <<" "," "," "," ">> \o ts_literal(txn_id_str(i), transactions'[i], <<"u","n","d","e","f","i","n","e","d">>)
                              \o gen_plan_transactions_suffix(i, n)]
       IN IF \E i \in 1..n :
                ~has_keys(transactions'[i], {"date", "label", "amount", "type", "category", "notes"})
          THEN pc' = "crashed" /\ UNCHANGED <<files, report>>
          ELSE /\ report' = ts_code
               /\ files' = write_file(files, "plan_transactions_section.ts",
                                      str_join(<<",", "\n">>, ts_code))
               /\ pc' = "done"
    /\ UNCHANGED <<workbook, categories_in_transactions, nrows, app_category_totals, unmapped,
                   txn_id, actuals>>

\* the first upto lines gen_correct_ts.py and gen_full_transactions.py render:
\* every line but the last of the file ends with a comma
ts_lines(records, indent, upto) ==
    [i \in 1..upto |->
        indent \o ts_literal(fstring(records[i].id), records[i], linked_rule(records[i]))
            \o (IF i < Len(records) THEN <<",">> ELSE <<>>)]

\* the position of the first record without one of the keys, 0 when all have them
first_key_error(records, keys) ==
    LET bad == {i \in 1..Len(records) : ~has_keys(records[i], keys)}
    IN IF bad = {} THEN 0 ELSE CHOOSE i \in bad : \A j \in bad : i <= j

\* gen_correct_ts.py: json.load, print one line per record (txn["id"] raises
\* KeyError on a record without that key, after the lines before it are printed)
gen_correct_ts_run ==
    /\ pc = "done"
    /\ "period1_correct_transactions.json" \in DOMAIN files
    /\ script' = "gen_correct_ts"
    /\ transactions' = files["period1_correct_transactions.json"]
    /\ LET bad == first_key_error(transactions',
                      {"id", "date", "label", "amount", "type", "category", "notes"})
       IN IF bad # 0
          THEN pc' = "crashed" /\ report' = ts_lines(transactions', <<>>, bad - 1)
          ELSE pc' = "done" /\ report' = ts_lines(transactions', <<>>, Len(transactions'))
    /\ UNCHANGED <<workbook, categories_in_transactions, nrows, app_category_totals, unmapped,
                   txn_id, files, actuals>>

\* gen_full_transactions.py: json.load, build ts_lines (KeyError as above),
\* then print the count and ts_lines[0], ts_lines[-1] (IndexError on no lines)
gen_full_transactions_run ==
    /\ pc = "done"
    /\ "period1_correct_transactions.json" \in DOMAIN files
    /\ script' = "gen_full_transactions"
    /\ transactions' = files["period1_correct_transactions.json"]
    /\ LET bad == first_key_error(transactions',
                      {"id", "date", "label", "amount", "type", "category", "notes"})
       IN IF bad # 0 \/ transactions' = <<>>
          THEN pc' = "crashed" /\ report' = <<>>
          ELSE pc' = "done" /\ report' = ts_lines(transactions', <<" "," "," "," ">>, Len(transactions'))
    /\ UNCHANGED <<workbook, categories_in_transactions, nrows, app_category_totals, unmapped,
                   txn_id, files, actuals>>

-----------------------------------------------------------------------------
(* fix_transaction_categories.py, fix_other_categories.py                  *)

\* the plan file the fixers rewrite, with the transactions array as
\* gen_full_transactions.py renders it (recategorize_transactions.py finds
\* the array between "transactions: [" and "\n  ],")
plan_content(records) ==
    <<" "," ","t","r","a","n","s","a","c","t","i","o","n","s",":"," ","[">> \o <<"\n">>
        \o str_join(<<"\n">>, ts_lines(records, <<" "," "," "," ">>, Len(records)))
        \o <<"\n">> \o <<" "," ","]",",">> \o <<"\n">>

\* the positions at which old occurs in s
occurrences(old, s) ==
    {i \in 1..(Len(s) - Len(old) + 1) : \A k \in 1..Len(old) : s[i + k - 1] = old[k]}

\* a replace that stops after the first occurrence and drops the text after it
str_replace_truncating(s, old, new) ==
    IF occurrences(old, s) = {} THEN s
    ELSE LET i == CHOOSE j \in occurrences(old, s) : \A k \in occurrences(old, s) : j <= k
         IN SubSeq(s, 1, i - 1) \o new

\* s.replace(old, new): every non-overlapping occurrence, left to right
RECURSIVE str_replace(_, _, _)
str_replace(s, old, new) ==
    IF occurrences(old, s) = {} THEN s
    ELSE LET i == CHOOSE j \in occurrences(old, s) : \A k \in occurrences(old, s) : j <= k
         IN SubSeq(s, 1, i - 1) \o new \o str_replace(SubSeq(s, i + Len(old), Len(s)), old, new)

\* a fixer that swaps allowance and bill on the House Keep records
fix_transaction_categories_swap(content) ==
    IF occurrences(
            <<"c","a","t","e","g","o","r","y",":"," ","\"","a","l","l","o","w","a","n","c","e","\"",","," ","n","o","t","e","s",":"," ","\"","H","o","u","s","e"," ","K","e","e","p","\"">>, content) # {}
    THEN str_replace(content, 
            <<"c","a","t","e","g","o","r","y",":"," ","\"","a","l","l","o","w","a","n","c","e","\"",","," ","n","o","t","e","s",":"," ","\"","H","o","u","s","e"," ","K","e","e","p","\"">>, 
            <<"c","a","t","e","g","o","r","y",":"," ","\"","b","i","l","l","\"",","," ","n","o","t","e","s",":"," ","\"","H","o","u","s","e"," ","K","e","e","p","\"">>)
    ELSE str_replace(content, 
            <<"c","a","t","e","g","o","r","y",":"," ","\"","b","i","l","l","\"",","," ","n","o","t","e","s",":"," ","\"","H","o","u","s","e"," ","K","e","e","p","\"">>, 
            <<"c","a","t","e","g","o","r","y",":"," ","\"","a","l","l","o","w","a","n","c","e","\"",","," ","n","o","t","e","s",":"," ","\"","H","o","u","s","e"," ","K","e","e","p","\"">>)

\* the content fix_transaction_categories.py writes back: the House Keep
\* replacement, then the one_off_patterns
fix_transaction_categories_content(content) ==
    LET house_keep == str_replace(content, 
            <<"c","a","t","e","g","o","r","y",":"," ","\"","a","l","l","o","w","a","n","c","e","\"",","," ","n","o","t","e","s",":"," ","\"","H","o","u","s","e"," ","K","e","e","p","\"">>, 
            <<"c","a","t","e","g","o","r","y",":"," ","\"","b","i","l","l","\"",","," ","n","o","t","e","s",":"," ","\"","H","o","u","s","e"," ","K","e","e","p","\"">>)
    IN IF occurrences(
            <<"c","a","t","e","g","o","r","y",":"," ","\"","o","t","h","e","r","\"",","," ","n","o","t","e","s",":"," ","\"","O","n","e","-","O","f","f"," ","G","i","v","i","n","g","\"">>, house_keep) # {}
       THEN str_replace(house_keep, 
            <<"c","a","t","e","g","o","r","y",":"," ","\"","o","t","h","e","r","\"",","," ","n","o","t","e","s",":"," ","\"","O","n","e","-","O","f","f"," ","G","i","v","i","n","g","\"">>, 
            <<"c","a","t","e","g","o","r","y",":"," ","\"","b","i","l","l","\"",","," ","n","o","t","e","s",":"," ","\"","O","n","e","-","O","f","f"," ","G","i","v","i","n","g","\"">>)
       ELSE house_keep

fix_other_categories_replacements == <<
    <<<<"c","a","t","e","g","o","r","y",":"," ","\"","o","t","h","e","r","\"",","," ","n","o","t","e","s",":"," ","\"","O","n","e","-","O","f","f"," ","G","i","v","i","n","g"," ","(","C","h","r","i","s","t","m","a","s",")","\"">>,
      <<"c","a","t","e","g","o","r","y",":"," ","\"","b","i","l","l","\"",","," ","n","o","t","e","s",":"," ","\"","O","n","e","-","O","f","f"," ","G","i","v","i","n","g"," ","(","C","h","r","i","s","t","m","a","s",")","\"">>>>,
    <<<<"c","a","t","e","g","o","r","y",":"," ","\"","o","t","h","e","r","\"",","," ","n","o","t","e","s",":"," ","\"","U","t","i","l","i","t","y"," ","s","a","c","r","i","f","i","c","e"," ","f","o","r"," ","D","e","c","e","m","b","e","r","\"">>,
      <<"c","a","t","e","g","o","r","y",":"," ","\"","g","i","v","i","n","g","\"",","," ","n","o","t","e","s",":"," ","\"","U","t","i","l","i","t","y"," ","s","a","c","r","i","f","i","c","e"," ","f","o","r"," ","D","e","c","e","m","b","e","r","\"">>>>,
    <<<<"c","a","t","e","g","o","r","y",":"," ","\"","o","t","h","e","r","\"",","," ","n","o","t","e","s",":"," ","\"","A","l","l","o","w","a","n","c","e"," ","f","o","r"," ","D","e","c","e","m","b","e","r","\"">>,
      <<"c","a","t","e","g","o","r","y",":"," ","\"","b","i","l","l","\"",","," ","n","o","t","e","s",":"," ","\"","A","l","l","o","w","a","n","c","e"," ","f","o","r"," ","D","e","c","e","m","b","e","r","\"">>>>,
    <<<<"c","a","t","e","g","o","r","y",":"," ","\"","o","t","h","e","r","\"",","," ","n","o","t","e","s",":"," ","\"","M","o","n","z","o"," ","p","a","y","m","e","n","t"," ","-"," ","D","e","c","\"">>,
      <<"c","a","t","e","g","o","r","y",":"," ","\"","b","i","l","l","\"",","," ","n","o","t","e","s",":"," ","\"","M","o","n","z","o"," ","p","a","y","m","e","n","t"," ","-"," ","D","e","c","\"">>>>,
    <<<<"c","a","t","e","g","o","r","y",":"," ","\"","o","t","h","e","r","\"",","," ","n","o","t","e","s",":"," ","\"","D","e","c","e","m","b","e","r"," ","c","o","n","t","r","i","b","u","t","i","o","n","\"">>,
      <<"c","a","t","e","g","o","r","y",":"," ","\"","g","i","v","i","n","g","\"",","," ","n","o","t","e","s",":"," ","\"","D","e","c","e","m","b","e","r"," ","c","o","n","t","r","i","b","u","t","i","o","n","\"">>>>,
    <<<<"c","a","t","e","g","o","r","y",":"," ","\"","o","t","h","e","r","\"",","," ","n","o","t","e","s",":"," ","\"","G","i","f","t"," ","f","o","r"," ","t","h","e"," ","C","h","r","i","s","t","m","a","s"," ","S","e","a","s","o","n","\"">>,
      <<"c","a","t","e","g","o","r","y",":"," ","\"","b","i","l","l","\"",","," ","n","o","t","e","s",":"," ","\"","G","i","f","t"," ","f","o","r"," ","t","h","e"," ","C","h","r","i","s","t","m","a","s"," ","S","e","a","s","o","n","\"">>>>,
    <<<<"c","a","t","e","g","o","r","y",":"," ","\"","o","t","h","e","r","\"",","," ","n","o","t","e","s",":"," ","\"","F","u","e","l"," ","f","o","r"," ","R","e","n","a","u","l","t"," ","S","c","e","n","i","c","\"">>,
      <<"c","a","t","e","g","o","r","y",":"," ","\"","b","i","l","l","\"",","," ","n","o","t","e","s",":"," ","\"","F","u","e","l"," ","f","o","r"," ","R","e","n","a","u","l","t"," ","S","c","e","n","i","c","\"">>>>,
    <<<<"c","a","t","e","g","o","r","y",":"," ","\"","o","t","h","e","r","\"",","," ","n","o","t","e","s",":"," ","\"","l","a","s","t"," ","p","a","y","m","e","n","t"," ","f","o","r"," ","i","p","h","o","n","e"," ","1","3","\"">>,
      <<"c","a","t","e","g","o","r","y",":"," ","\"","b","i","l","l","\"",","," ","n","o","t","e","s",":"," ","\"","l","a","s","t"," ","p","a","y","m","e","n","t"," ","f","o","r"," ","i","p","h","o","n","e"," ","1","3","\"">>>>,
    <<<<"c","a","t","e","g","o","r","y",":"," ","\"","o","t","h","e","r","\"",","," ","n","o","t","e","s",":"," ","\"","C","a","p","i","t","a","l"," ","o","n","e"," ","f","o","r"," ","D","e","c","\"">>,
      <<"c","a","t","e","g","o","r","y",":"," ","\"","b","i","l","l","\"",","," ","n","o","t","e","s",":"," ","\"","C","a","p","i","t","a","l"," ","o","n","e"," ","f","o","r"," ","D","e","c","\"">>>>,
    <<<<"c","a","t","e","g","o","r","y",":"," ","\"","o","t","h","e","r","\"",","," ","n","o","t","e","s",":"," ","\"","C","o","m","m","u","n","i","t","y"," ","f","i","b","r","e","/"," ","i","n","t","e","r","n","e","t"," ","f","o","r"," ","D","e","c","e","m","b","e","r","\"">>,
      <<"c","a","t","e","g","o","r","y",":"," ","\"","b","i","l","l","\"",","," ","n","o","t","e","s",":"," ","\"","C","o","m","m","u","n","i","t","y"," ","f","i","b","r","e","/"," ","i","n","t","e","r","n","e","t"," ","f","o","r"," ","D","e","c","e","m","b","e","r","\"">>>>,
    <<<<"c","a","t","e","g","o","r","y",":"," ","\"","o","t","h","e","r","\"",","," ","n","o","t","e","s",":"," ","\"","L","a","p","t","o","p"," ","f","o","r"," ","D","e","c","e","m","b","e","r","\"">>,
      <<"c","a","t","e","g","o","r","y",":"," ","\"","b","i","l","l","\"",","," ","n","o","t","e","s",":"," ","\"","L","a","p","t","o","p"," ","f","o","r"," ","D","e","c","e","m","b","e","r","\"">>>>,
    <<<<"c","a","t","e","g","o","r","y",":"," ","\"","o","t","h","e","r","\"",","," ","n","o","t","e","s",":"," ","\"","I","p","h","o","n","e"," ","p","a","y","m","e","n","t","\"">>,
      <<"c","a","t","e","g","o","r","y",":"," ","\"","b","i","l","l","\"",","," ","n","o","t","e","s",":"," ","\"","I","p","h","o","n","e"," ","p","a","y","m","e","n","t","\"">>>>,
    <<<<"c","a","t","e","g","o","r","y",":"," ","\"","o","t","h","e","r","\"",","," ","n","o","t","e","s",":"," ","\"","S","u","p","p","o","r","t"," ","f","o","r"," ","l","i","s","e","n","c","e","\"">>,
      <<"c","a","t","e","g","o","r","y",":"," ","\"","b","i","l","l","\"",","," ","n","o","t","e","s",":"," ","\"","S","u","p","p","o","r","t"," ","f","o","r"," ","l","i","s","e","n","c","e","\"">>>>,
    <<<<"c","a","t","e","g","o","r","y",":"," ","\"","o","t","h","e","r","\"",","," ","n","o","t","e","s",":"," ","\"","R","e","n","t"," ","f","o","r"," ","D","e","c","e","m","b","e","r","\"">>,
      <<"c","a","t","e","g","o","r","y",":"," ","\"","b","i","l","l","\"",","," ","n","o","t","e","s",":"," ","\"","R","e","n","t"," ","f","o","r"," ","D","e","c","e","m","b","e","r","\"">>>>,
    <<<<"c","a","t","e","g","o","r","y",":"," ","\"","o","t","h","e","r","\"",","," ","n","o","t","e","s",":"," ","\"","S","k","y","M","o","b","i","l","e","\"">>,
      <<"c","a","t","e","g","o","r","y",":"," ","\"","b","i","l","l","\"",","," ","n","o","t","e","s",":"," ","\"","S","k","y","M","o","b","i","l","e","\"">>>>,
    <<<<"c","a","t","e","g","o","r","y",":"," ","\"","o","t","h","e","r","\"",","," ","n","o","t","e","s",":"," ","\"","E","U","I"," ","L","t","d"," ","-"," ","i","n","s","u","r","a","n","c","e"," ","f","o","r"," ","t","h","e"," ","c","a","r","\"">>,
      <<"c","a","t","e","g","o","r","y",":"," ","\"","b","i","l","l","\"",","," ","n","o","t","e","s",":"," ","\"","E","U","I"," ","L","t","d"," ","-"," ","i","n","s","u","r","a","n","c","e"," ","f","o","r"," ","t","h","e"," ","c","a","r","\"">>>>,
    <<<<"c","a","t","e","g","o","r","y",":"," ","\"","o","t","h","e","r","\"",","," ","n","o","t","e","s",":"," ","\"","F","u","e","l"," ","t","o"," ","G","e","o","r","g","e","s"," ","K","a","b","l","a","n"," ","f","o","r"," ","3","1","s","t"," ","N","i","g","h","t","\"">>,
      <<"c","a","t","e","g","o","r","y",":"," ","\"","b","i","l","l","\"",","," ","n","o","t","e","s",":"," ","\"","F","u","e","l"," ","t","o"," ","G","e","o","r","g","e","s"," ","K","a","b","l","a","n"," ","f","o","r"," ","3","1","s","t"," ","N","i","g","h","t","\"">>>>,
    <<<<"c","a","t","e","g","o","r","y",":"," ","\"","o","t","h","e","r","\"",","," ","n","o","t","e","s",":"," ","\"","o","n"," ","t","h","e"," ","2","4","/","1","2"," ","-"," ","F","u","e","l","\"">>,
      <<"c","a","t","e","g","o","r","y",":"," ","\"","b","i","l","l","\"",","," ","n","o","t","e","s",":"," ","\"","o","n"," ","t","h","e"," ","2","4","/","1","2"," ","-"," ","F","u","e","l","\"">>>>,
    <<<<"c","a","t","e","g","o","r","y",":"," ","\"","o","t","h","e","r","\"",","," ","n","o","t","e","s",":"," ","\"","T","i","t","h","e"," ","o","n"," ","M","c","D","\"">>,
      <<"c","a","t","e","g","o","r","y",":"," ","\"","g","i","v","i","n","g","\"",","," ","n","o","t","e","s",":"," ","\"","T","i","t","h","e"," ","o","n"," ","M","c","D","\"">>>>,
    <<<<"c","a","t","e","g","o","r","y",":"," ","\"","o","t","h","e","r","\"",","," ","n","o","t","e","s",":"," ","\"","R","o","a","d"," ","t","a","x"," ","f","o","r"," ","D","e","c","\"">>,
      <<"c","a","t","e","g","o","r","y",":"," ","\"","b","i","l","l","\"",","," ","n","o","t","e","s",":"," ","\"","R","o","a","d"," ","t","a","x"," ","f","o","r"," ","D","e","c","\"">>>> >>

\* for old, new in replacements: if old in content: content = content.replace(old, new)
RECURSIVE fix_other_categories_content(_, _)
fix_other_categories_content(content, pairs) ==
    IF pairs = <<>> THEN content
    ELSE fix_other_categories_content(
             IF occurrences(pairs[1][1], content) # {}
             THEN str_replace(content, pairs[1][1], pairs[1][2]) ELSE content,
             Tail(pairs))

\* one run of fix_transaction_categories.py: read, replace, write back
fix_transaction_categories_run ==
    /\ script = "fix_transaction_categories"
    /\ nrows < MaxRuns
    /\ nrows' = nrows + 1
    /\ files' = write_file(files, "cashflow-app/src/data/plan.ts",
                           fix_transaction_categories_content(files["cashflow-app/src/data/plan.ts"]))
    /\ pc' = "done"
    /\ UNCHANGED <<script, workbook, categories_in_transactions, transactions,
                   app_category_totals, unmapped, txn_id, actuals, report>>

\* one run of fix_other_categories.py: read, replace, write back
fix_other_categories_run ==
    /\ script = "fix_other_categories"
    /\ nrows < MaxRuns
    /\ nrows' = nrows + 1
    /\ files' = write_file(files, "cashflow-app/src/data/plan.ts",
                           fix_other_categories_content(files["cashflow-app/src/data/plan.ts"],
                                                        fix_other_categories_replacements))
    /\ pc' = "done"
    /\ UNCHANGED <<script, workbook, categories_in_transactions, transactions,
                   app_category_totals, unmapped, txn_id, actuals, report>>

\* the category and notes of the records of a plan file, and their labels
PlanCells ==
    {<<allowance, <<"H","o","u","s","e"," ","K","e","e","p">>, <<"S","h","o","p">>>>,
     <<bill, <<"H","o","u","s","e"," ","K","e","e","p">>, <<"S","h","o","p">>>>,
     <<other, <<"H","o","u","s","e"," ","K","e","e","p">>, <<"S","h","o","p">>>>,
     <<other, <<"O","n","e","-","O","f","f"," ","G","i","v","i","n","g"," ","(","C","h","r","i","s","t","m","a","s",")">>, <<"S","h","o","p">>>>,
     <<other, <<"O","n","e","-","O","f","f"," ","G","i","v","i","n","g">>, <<"S","h","o","p">>>>,
     <<other, <<"S","k","y","M","o","b","i","l","e">>, <<"S","h","o","p">>>>,
     <<other, <<"C","o","s","m","e","t","i","c","s">>, <<"S","h","o","p">>>>,
     <<giving, <<"T","i","t","h","e">>, <<"f","o","r"," ","\"","H","o","u","s","e"," ","K","e","e","p","\"">>>>}

\* the record lists a plan file is rendered from, numbered in order
PlanTransactions ==
    {[i \in 1..Len(cells) |->
        [id |-> Str(txn_id_str(i)), date |-> Str(<<"2","0","2","6","-","0","1","-","0","5">>), label |-> Str(cells[i][3]),
         amount |-> Num(41000), type |-> Str(outflow), category |-> Str(cells[i][1]),
         notes |-> Str(cells[i][2]), linkedRuleId |-> None]] :
     cells \in UNION {[1..m -> PlanCells] : m \in 1..MaxPlanRecords}}

-----------------------------------------------------------------------------

\* the state of a script before its loop
InitRun(s) ==
    /\ script = s
    /\ pc = (IF s = "extract_final2" THEN "scan" ELSE "loop")
    /\ workbook = <<>>
    /\ categories_in_transactions = <<>>
    /\ nrows = 0
    /\ transactions = <<>>
    /\ app_category_totals =
         IF s = "finalize_extract" THEN [c \in Categories |-> 0] ELSE <<>>
    /\ unmapped = (IF s = "extract_correct" THEN <<>> ELSE {})
    /\ txn_id = (IF s \in {"extract_final", "extract_period1"} THEN 1 ELSE 0)
    /\ files = <<>>
    /\ actuals = <<>>
    /\ report = <<>>

\* one run of each script: its loop, one row per step, then its closing part
finalize_extract_run == (\E row \in Rows : finalize_extract_row(row)) \/ finalize_extract_save

extract_correct_run == (\E row \in Rows : extract_correct_row(row)) \/ extract_correct_save

extract_final2_run ==
    \/ \E row \in Rows : extract_final2_scan_row(row)
    \/ extract_final2_scan_end
    \/ extract_final2_row
    \/ extract_final2_save

extract_final_run == (\E row \in Rows : extract_final_row(row)) \/ extract_final_save

extract_period1_run == (\E row \in Rows : extract_period1_row(row)) \/ extract_period1_save

extract_with_column_c_run ==
    (\E row \in Rows : extract_with_column_c_row(row)) \/ extract_with_column_c_save

gen_corrected_transactions_run ==
    (\E row \in Rows : gen_corrected_transactions_row(row)) \/ gen_corrected_transactions_save

gen_final_transactions_run ==
    (\E row \in Rows : gen_final_transactions_row(row)) \/ gen_final_transactions_save

extract_corrected_run == (\E row \in Rows : extract_corrected_row(row)) \/ extract_corrected_save

gen_correct_transactions_run ==
    (\E row \in Rows : gen_correct_transactions_row(row)) \/ gen_correct_transactions_save

calc_corrected_variance_run ==
    (\E match \in Matches : calc_corrected_variance_match(match)) \/ calc_corrected_variance_report

verify_variance_run == verify_variance_report

\* the scripts that store abs(float(amount))
Init_amount_abs == \E s \in {"finalize_extract", "extract_correct", "extract_final2"} : InitRun(s)

Next_amount_abs == finalize_extract_run \/ extract_correct_run \/ extract_final2_run

Spec_amount_abs == Init_amount_abs /\ [][Next_amount_abs]_vars

\* the scripts that store the amount as read
Init_amount_raw == \E s \in {"extract_final", "extract_period1", "extract_with_column_c"} : InitRun(s)

Next_amount_raw == extract_final_run \/ extract_period1_run \/ extract_with_column_c_run

Spec_amount_raw == Init_amount_raw /\ [][Next_amount_raw]_vars

\* the scripts that map the workbook category by exact lookup, default other
Init_category_lookup ==
    \E s \in {"finalize_extract", "extract_correct", "extract_period1",
               "gen_corrected_transactions"} : InitRun(s)

Next_category_lookup ==
    finalize_extract_run \/ extract_correct_run \/ extract_period1_run
        \/ gen_corrected_transactions_run

Spec_category_lookup == Init_category_lookup /\ [][Next_category_lookup]_vars

Init_extract_corrected == InitRun("extract_corrected")

Next_extract_corrected == extract_corrected_run

Spec_extract_corrected == Init_extract_corrected /\ [][Next_extract_corrected]_vars

Init_extract_final == InitRun("extract_final")

Next_extract_final == extract_final_run

Spec_extract_final == Init_extract_final /\ [][Next_extract_final]_vars

\* the scripts of the income scenario
Init_income_scenario ==
    \E s \in {"finalize_extract", "gen_final_transactions", "extract_with_column_c"} : InitRun(s)

Next_income_scenario ==
    finalize_extract_run \/ gen_final_transactions_run \/ extract_with_column_c_run

Spec_income_scenario == Init_income_scenario /\ [][Next_income_scenario]_vars

Init_finalize_extract == InitRun("finalize_extract")

Next_finalize_extract == finalize_extract_run

Spec_finalize_extract == Init_finalize_extract /\ [][Next_finalize_extract]_vars

\* the runs whose record ids are checked
Init_ids == \E s \in {"finalize_extract", "extract_final"} : InitRun(s)

Next_ids == finalize_extract_run \/ extract_final_run

Spec_ids == Init_ids /\ [][Next_ids]_vars

Init_gen_correct_transactions == InitRun("gen_correct_transactions")

Next_gen_correct_transactions == gen_correct_transactions_run

Spec_gen_correct_transactions ==
    Init_gen_correct_transactions /\ [][Next_gen_correct_transactions]_vars

\* a producer of period1_correct_transactions.json, then the renderers of it
Init_renderers == \E s \in {"gen_correct_transactions", "extract_with_column_c"} : InitRun(s)

Next_renderers ==
    \/ gen_correct_transactions_run
    \/ extract_with_column_c_run
    \/ gen_plan_transactions_run
    \/ gen_correct_ts_run
    \/ gen_full_transactions_run

Spec_renderers == Init_renderers /\ [][Next_renderers]_vars

\* a fixer run again and again on a plan file rendered from some records
Init_fixers ==
    /\ script \in {"fix_transaction_categories", "fix_other_categories"}
    /\ pc = "loop"
    /\ workbook = <<>>
    /\ categories_in_transactions = <<>>
    /\ nrows = 0
    /\ transactions \in PlanTransactions
    /\ app_category_totals = <<>>
    /\ unmapped = {}
    /\ txn_id = 0
    /\ files = [f \in {"cashflow-app/src/data/plan.ts"} |-> plan_content(transactions)]
    /\ actuals = <<>>
    /\ report = <<>>

Next_fixers == fix_transaction_categories_run \/ fix_other_categories_run

Spec_fixers == Init_fixers /\ [][Next_fixers]_vars

\* the variance reports
Init_variance == \E s \in {"calc_corrected_variance", "verify_variance"} : InitRun(s)

Next_variance == calc_corrected_variance_run \/ verify_variance_run

Spec_variance == Init_variance /\ [][Next_variance]_vars

-----------------------------------------------------------------------------
(* Properties                                                              *)

\* the records of a written file (none while the file is not written)
Written(name) == IF name \in DOMAIN files THEN files[name] ELSE <<>>

\* the records a run has emitted so far and the records of every file it wrote
Emitted ==
    {transactions[i] : i \in 1..Len(transactions)}
        \cup UNION {{files[f][i] : i \in 1..Len(files[f])} : f \in DOMAIN files}

C2_AmountNonNegative ==
    script \in {"extract_final", "extract_period1", "extract_with_column_c"} =>
        \A f \in DOMAIN files : \A i \in 1..Len(files[f]) :
            files[f][i].amount.t = "num" /\ files[f][i].amount.v >= 0

\* C3: every record emitted by finalize_extract.py, extract_correct.py,
\* extract_period1.py and gen_corrected_transactions.py has a category in
\* {income, bill, giving, allowance, savings, other}.
C3_CategoryInEnumeration ==
    script \in {"finalize_extract", "extract_correct", "extract_period1",
                "gen_corrected_transactions"} =>
        \A i \in 1..Len(transactions) :
            transactions[i].category.t = "str" /\ transactions[i].category.v \in Categories

\* an expense row whose workbook category is in no table was emitted
C3_Witness ==
    /\ script \in {"finalize_extract", "extract_correct", "gen_corrected_transactions"}
    /\ \E i \in 1..Len(transactions) :
          /\ transactions[i].notes = Str(<<"C","o","s","m","e","t","i","c","s">>)
          /\ transactions[i].type = Str(outflow)
          /\ transactions[i].category = Str(other)

\* C4: every record emitted by extract_corrected.py has a category in
\* {income, bill, giving, allowance, savings, other}, i.e. map_category never
\* returns a value outside that set.
C4_CategoryInEnumeration ==
    script = "extract_corrected" =>
        \A i \in 1..Len(transactions) :
            transactions[i].category.t = "str" /\ transactions[i].category.v \in Categories

\* the row of the Tithe scenario: type Expense, category Tithe, amount -410
C5_Row == BaseRow

\* C5: extract_final.py turns the row of type Expense, category Tithe and
\* amount -410 into a record of type outflow, category giving and amount 410.
C5_TitheScenario ==
    [][extract_final_row(C5_Row) =>
         /\ Len(transactions') = Len(transactions) + 1
         /\ transactions'[Len(transactions')].type = Str(outflow)
         /\ transactions'[Len(transactions')].category = Str(giving)
         /\ transactions'[Len(transactions')].amount = Num(41000)]_vars

\* the rows of the income scenario: type Income, category Income - FM,
\* amount 2000, a valid in-window date, any description
C6_Rows ==
    {[BaseRow EXCEPT !.B = Str(<<"I","n","c","o","m","e">>), !.C = Str(<<"I","n","c","o","m","e"," ","-"," ","F","M">>), !.E = Num(200000), !.D = d] :
        d \in DescriptionCells}

\* C6: finalize_extract.py, gen_final_transactions.py and
\* extract_with_column_c.py turn a period-1 row of type Income, category
\* Income - FM and amount 2000 into a record of type income, category income
\* and amount 2000.
C6_IncomeScenario ==
    [][\A row \in C6_Rows :
         (finalize_extract_row(row) \/ gen_final_transactions_row(row)
              \/ extract_with_column_c_row(row)) =>
             /\ Len(transactions') = Len(transactions) + 1
             /\ transactions'[Len(transactions')].type = Str(income)
             /\ transactions'[Len(transactions')].category = Str(income)
             /\ transactions'[Len(transactions')].amount = Num(200000)]_vars

\* the sum of amount over the records of a list whose category is c
RECURSIVE SumByCategory(_, _)
SumByCategory(records, c) ==
    IF records = <<>> THEN 0
    ELSE (IF Head(records).category = Str(c) THEN Head(records).amount.v ELSE 0)
             + SumByCategory(Tail(records), c)

\* C8: when finalize_extract.py has processed all rows, app_category_totals[c]
\* is the sum of amount over the emitted records of category c, for each of
\* the six categories.
C8_TotalsMatchRecords ==
    (script = "finalize_extract" /\ pc = "done") =>
        \A c \in Categories :
            app_category_totals[c] = SumByCategory(Written("period1_transactions_final.json"), c)

\* a finished run with records of different categories and types
C8_Witness ==
    /\ script = "finalize_extract" /\ pc = "done"
    /\ Len(transactions) = 2
    /\ app_category_totals[savings] > 0
    /\ app_category_totals[giving] > 0

\* the sum of a sequence of numbers
RECURSIVE SumSeq(_)
SumSeq(ns) == IF ns = <<>> THEN 0 ELSE Head(ns) + SumSeq(Tail(ns))

\* the sum of amount over the stored records (a dict's item list) that
\* satisfy the test
SumItems(items, test(_)) ==
    SumSeq([i \in 1..Len(items) |-> IF test(items[i][2]) THEN items[i][2].amount ELSE 0])

BudgetCategories == {income, bill, giving, allowance, savings}

\* C9 (as claimed): in calc_corrected_variance.py, actuals[c] is the sum of
\* amount over all parsed records of category c, whatever their type.
C9_ActualsSumAnyType ==
    (script = "calc_corrected_variance" /\ pc = "done") =>
        \A c \in BudgetCategories :
            actuals_get(actuals, c) = SumItems(transactions, LAMBDA txn : txn.category = c)

\* C9 (amended): transfers are not counted, a record of type income counts
\* under income whatever its category, and an outflow counts under its
\* category; actuals[c] is the sum of amount over the outflow records of
\* category c, plus, for c = income, over the records of type income.
C9_ActualsSumOutflows ==
    (script = "calc_corrected_variance" /\ pc = "done") =>
        \A c \in BudgetCategories :
            actuals_get(actuals, c) =
                SumItems(transactions,
                         LAMBDA txn : (txn.type = outflow /\ txn.category = c)
                                          \/ (txn.type = income /\ c = income))

\* a finished report over a transfer of category savings and an income record
\* of another category
C9_Witness ==
    /\ script = "calc_corrected_variance" /\ pc = "done"
    /\ \E i \in 1..Len(transactions) :
          transactions[i][2].type = transfer /\ transactions[i][2].category = savings
    /\ \E i \in 1..Len(transactions) :
          transactions[i][2].type = income /\ transactions[i][2].category = giving

\* the budget of a category in the script that is running, in pence
BudgetOf(c) ==
    100 * dict_get(IF script = "verify_variance" THEN verify_variance_budgets
                   ELSE calc_corrected_variance_budgets, c, 0)

\* the actual of a category in the script that is running, in pence
ActualOf(c) ==
    IF script = "verify_variance" THEN dict_get(verify_variance_actuals, c, 0)
    ELSE actuals_get(actuals, c)

\* C10: in calc_corrected_variance.py and verify_variance.py every report
\* line has variance = actual - budget and exactly one status: OVER iff
\* variance > 5, UNDER iff variance < -5, OK iff -5 <= variance <= 5.
C10_StatusBand ==
    script \in {"calc_corrected_variance", "verify_variance"} =>
        \A i \in 1..Len(report) :
            LET r == report[i]
            IN /\ r.variance = ActualOf(r.category) - BudgetOf(r.category)
               /\ r.status \in {<<"O","V","E","R">>, <<"U","N","D","E","R">>, <<"O","K">>}
               /\ (r.status = <<"O","V","E","R">>) <=> (r.variance > 500)
               /\ (r.status = <<"U","N","D","E","R">>) <=> (r.variance < -500)
               /\ (r.status = <<"O","K">>) <=> (-500 <= r.variance /\ r.variance <= 500)

\* a report line whose variance is exactly 5 pounds, with status OK
C10_Witness ==
    /\ script = "calc_corrected_variance" /\ pc = "done"
    /\ \E i \in 1..Len(report) : report[i].variance = 500 /\ report[i].status = <<"O","K">>

\* a report line whose variance is exactly -5 pounds, with status OK
C10_WitnessLower ==
    /\ script = "calc_corrected_variance" /\ pc = "done"
    /\ \E i \in 1..Len(report) : report[i].variance = -500 /\ report[i].status = <<"O","K">>

\* the category the first pattern of bills_schedule_map contained in the
\* lower-cased label stands for, in table order (<<>> when there is none)
C11_FirstPattern(label) ==
    LET l == str_lower(label)
        hit(i) == str_contains(str_lower(bills_schedule_map[i][1]), l)
    IN IF \E i \in 1..Len(bills_schedule_map) : hit(i)
       THEN bills_schedule_map[CHOOSE i \in 1..Len(bills_schedule_map) :
                hit(i) /\ \A j \in 1..(i - 1) : ~hit(j)][2]
       ELSE <<>>

\* no pattern of either table is contained in the lower-cased label
C11_NoPattern(label) ==
    LET l == str_lower(label)
    IN /\ \A i \in 1..Len(bills_schedule_map) : ~str_contains(str_lower(bills_schedule_map[i][1]), l)
       /\ \A i \in 1..Len(excel_cat_map) : ~str_contains(str_lower(excel_cat_map[i][1]), l)

\* C11: in extract_corrected.py, map_category gives an expense record the
\* category of the first pattern of bills_schedule_map (in table order)
\* contained case-insensitively in its label, and "other" when the label
\* contains no pattern of either table.
C11_FirstMatchElseOther ==
    script = "extract_corrected" =>
        \A i \in 1..Len(transactions) :
            transactions[i].type = Str(outflow) =>
                /\ C11_FirstPattern(transactions[i].label.v) # <<>> =>
                       transactions[i].category = Str(C11_FirstPattern(transactions[i].label.v))
                /\ C11_NoPattern(transactions[i].label.v) =>
                       transactions[i].category = Str(other)

\* the first half of C11 alone: the first contained pattern decides
C11_FirstMatchDecides ==
    script = "extract_corrected" =>
        \A i \in 1..Len(transactions) :
            (transactions[i].type = Str(outflow) /\ C11_FirstPattern(transactions[i].label.v) # <<>>) =>
                transactions[i].category = Str(C11_FirstPattern(transactions[i].label.v))

\* C12: every record emitted by extract_final2.py whose type is "transfer"
\* carries the linkedRuleId "savings", whatever the workbook category of the
\* Transfer row.
C12_TransferLinked ==
    script = "extract_final2" =>
        \A r \in Emitted : r.type = Str(transfer) => r.linkedRuleId = Str(savings)

\* C18: in extract_final2.py every emitted record of type "income" has
\* category "income" and every emitted record of type "transfer" has category
\* "savings", for any combination of workbook type and workbook category.
C18_TypeCategoryCoherent ==
    script = "extract_final2" =>
        \A i \in 1..Len(transactions) :
            /\ transactions[i].type = Str(income) => transactions[i].category = Str(income)
            /\ transactions[i].type = Str(transfer) => transactions[i].category = Str(savings)

\* C13: in finalize_extract.py and extract_correct.py linkedRuleId is used
\* only for transfers: every emitted record with a non-null linkedRuleId has
\* type "transfer".
C13_LinkedOnlyTransfers ==
    script \in {"finalize_extract", "extract_correct"} =>
        \A i \in 1..Len(transactions) :
            transactions[i].linkedRuleId # None => transactions[i].type = Str(transfer)

\* the ids of a list of records
C14_Ids(records) == {records[i].id : i \in 1..Len(records)}

\* the ids of the records are pairwise distinct and are exactly txn-1 .. txn-N
C14_Sequential(records) ==
    /\ \A i, j \in 1..Len(records) : i # j => records[i].id # records[j].id
    /\ C14_Ids(records) = {Str(<<"t","x","n","-">> \o int_str(n)) : n \in 1..Len(records)}

\* C14: within one run of finalize_extract.py or extract_final.py that has
\* emitted N records, the ids are pairwise distinct and are exactly
\* txn-1 .. txn-N, in the record list and in the written file; a skipped row
\* consumes no id.
C14_IdsSequential ==
    script \in {"finalize_extract", "extract_final"} =>
        /\ C14_Sequential(transactions)
        /\ \A f \in DOMAIN files : C14_Sequential(files[f])

\* finalize_extract.py wrote two records that the sort reordered: txn-2 first
C14_Witness ==
    /\ script = "finalize_extract"
    /\ Len(Written("period1_transactions_final.json")) = 2
    /\ Written("period1_transactions_final.json")[1].id = Str(<<"t","x","n","-","2">>)
    /\ Written("period1_transactions_final.json")[2].id = Str(<<"t","x","n","-","1">>)

\* a run that read two rows, skipped one and wrote the other as txn-1
C14_WitnessSkipped ==
    /\ script \in {"finalize_extract", "extract_final"}
    /\ nrows = 2
    /\ \E f \in DOMAIN files : Len(files[f]) = 1 /\ files[f][1].id = Str(<<"t","x","n","-","1">>)

\* a period-1 row whose amount cell is the text "abc"
C15_Row == [BaseRow EXCEPT !.E = Str(<<"a","b","c">>)]

\* C15: in finalize_extract.py a period-1 row whose amount cell cannot be
\* parsed as a number is caught and skipped: the row emits nothing and the
\* run continues, so that the remaining rows are still read and
\* period1_transactions_final.json is still written.
C15_BadAmountSkipped ==
    [][finalize_extract_row(C15_Row) => (pc' = "loop" /\ transactions' = transactions)]_vars

\* C16: in extract_with_column_c.py and gen_final_transactions.py an expense
\* row whose workbook category (kept in the record's notes) is not a key of
\* the script's mapping table yields a record with category "other".
C16_UnmappedIsOther ==
    /\ script = "extract_with_column_c" =>
          \A i \in 1..Len(transactions) :
              (/\ transactions[i].type = Str(outflow)
               /\ ~dict_has(extract_with_column_c_category_mapping, transactions[i].notes.v))
                  => transactions[i].category = Str(other)
    /\ script = "gen_final_transactions" =>
          \A i \in 1..Len(transactions) :
              (/\ transactions[i].type = Str(outflow)
               /\ ~dict_has(gen_final_transactions_CATEGORY_MAPPING, transactions[i].notes.v))
                  => transactions[i].category = Str(other)

\* the number n of the id txn-n of a record
C17_IdNumber(r) == digits_val(SubSeq(r.id.v, 5, Len(r.id.v)))

\* C17: the record list written by finalize_extract.py and extract_correct.py
\* is ordered newest first (date[i] >= date[i+1] for consecutive records),
\* and records with equal dates keep their workbook row order: their id
\* numbers ascend within a date.
C17_NewestFirstStable ==
    script \in {"finalize_extract", "extract_correct"} =>
        LET written == Written("period1_transactions_final.json")
        IN \A i \in 1..(Len(written) - 1) :
              /\ ~str_lt(written[i].date.v, written[i + 1].date.v)
              /\ written[i].date = written[i + 1].date =>
                     C17_IdNumber(written[i]) < C17_IdNumber(written[i + 1])

\* two records of one date were written in their row order
C17_Witness ==
    /\ script \in {"finalize_extract", "extract_correct"}
    /\ LET written == Written("period1_transactions_final.json")
       IN /\ Len(written) = 2
          /\ written[1].date = written[2].date
          /\ written[1].id = Str(<<"t","x","n","-","1">>)
          /\ written[2].id = Str(<<"t","x","n","-","2">>)

\* an older row read before a newer one was written after it
C17_WitnessReordered ==
    /\ script \in {"finalize_extract", "extract_correct"}
    /\ LET written == Written("period1_transactions_final.json")
       IN /\ Len(written) = 2
          /\ written[1].date = Str(<<"2","0","2","6","-","0","1","-","0","5">>)
          /\ written[2].date = Str(<<"2","0","2","5","-","1","2","-","2","2">>)
          /\ written[1].id = Str(<<"t","x","n","-","2">>)

\* the record type the workbook type column stands for
C19_TypeOf(type_val) ==
    IF type_val = Str(<<"I","n","c","o","m","e">>) THEN Str(income)
    ELSE IF type_val = Str(<<"T","r","a","n","s","f","e","r">>) THEN Str(transfer)
    ELSE Str(outflow)

\* C19: in gen_final_transactions.py the record type follows the workbook
\* type column: a row of type Income yields type income, Expense yields
\* outflow and Transfer yields transfer, whatever the sign of the amount cell.
C19_TypeFollowsColumn ==
    [][\A row \in Rows :
         (/\ row.B \in {Str(<<"I","n","c","o","m","e">>), Str(<<"E","x","p","e","n","s","e">>), Str(<<"T","r","a","n","s","f","e","r">>)}
          /\ gen_final_transactions_row(row)
          /\ Len(transactions') = Len(transactions) + 1) =>
             transactions'[Len(transactions')].type = C19_TypeOf(row.B)]_vars

\* the in-window rows of workbook type Transfer or Expense
C20_Rows ==
    {row \in Rows :
        /\ row.A.t = "datetime"
        /\ datetime_le(period1_start, row.A) /\ datetime_le(row.A, period1_end)
        /\ row.B \in {Str(<<"T","r","a","n","s","f","e","r">>), Str(<<"E","x","p","e","n","s","e">>)}}

\* C20: in gen_correct_transactions.py every in-window row whose workbook
\* type is Transfer yields a record of type transfer, and every row whose
\* type is Expense a record of type outflow, whatever its description text,
\* an empty description included.
C20_TypeFollowsColumn ==
    [][\A row \in C20_Rows :
         gen_correct_transactions_row(row) =>
             /\ Len(transactions') = Len(transactions) + 1
             /\ transactions'[Len(transactions')].type =
                    (IF row.B = Str(<<"T","r","a","n","s","f","e","r">>) THEN Str(transfer) ELSE Str(outflow))]_vars

\* the number of commas in a text
C21_Commas(s) == Cardinality({i \in 1..Len(s) : s[i] = ","})

\* the record literal numbered txn-i of the i-th input record
C21_Literal(i) == ts_literal(<<"t","x","n","-">> \o int_str(i), transactions[i], <<"u","n","d","e","f","i","n","e","d">>)

\* the commas inside the record literals of the input records from the i-th on
RECURSIVE C21_LiteralCommas(_)
C21_LiteralCommas(i) ==
    IF i > Len(transactions) THEN 0 ELSE C21_Commas(C21_Literal(i)) + C21_LiteralCommas(i + 1)

\* C21: the file plan_transactions_section.ts that gen_plan_transactions.py
\* writes for N >= 1 input records contains the N record literals numbered
\* txn-1 .. txn-N in input order, with exactly one comma between consecutive
\* records and none after the last: N - 1 commas besides those of the
\* literals themselves.
C21_OneCommaBetweenRecords ==
    (script = "gen_plan_transactions" /\ pc = "done" /\ Len(transactions) >= 1) =>
        LET content == files["plan_transactions_section.ts"]
        IN /\ \A i \in 1..Len(transactions) : str_contains(C21_Literal(i), content)
           /\ C21_Commas(content) = C21_LiteralCommas(1) + Len(transactions) - 1

\* C22: whichever producer wrote period1_correct_transactions.json last
\* (gen_correct_transactions.py or extract_with_column_c.py), a following run
\* of gen_correct_ts.py or gen_full_transactions.py finds every field it
\* reads (id, date, label, amount, type, category, notes) in every record of
\* the file and renders one line per record without failing.
C22_RenderersReadProducers ==
    script \in {"gen_correct_ts", "gen_full_transactions"} =>
        /\ \A i \in 1..Len(transactions) :
              {"id", "date", "label", "amount", "type", "category", "notes"}
                  \subseteq DOMAIN transactions[i]
        /\ Len(transactions) >= 1 => (pc = "done" /\ Len(report) = Len(transactions))

\* C23: gen_final_transactions.py keeps its two outputs in step: whenever
\* period1_transactions_final.json is written with N records,
\* period1_transactions_final.ts is written with N lines, one per record in
\* the same order, also for rows whose description cell is empty.
C23_OutputsInStep ==
    (script = "gen_final_transactions" /\ "period1_transactions_final.json" \in DOMAIN files) =>
        /\ "period1_transactions_final.ts" \in DOMAIN files
        /\ Len(Written("period1_transactions_final.ts")) = Len(files["period1_transactions_final.json"])
        /\ \A i \in 1..Len(files["period1_transactions_final.json"]) :
              Written("period1_transactions_final.ts")[i].id = files["period1_transactions_final.json"][i].id.v

(***************************************************************************)
(* the in-place fixers                                                     *)
(***************************************************************************)
PLAN == "cashflow-app/src/data/plan.ts"

\* the record lists that differ from the starting records in categories only
recategorized ==
    {[i \in 1..Len(transactions) |-> [transactions[i] EXCEPT !.category = Str(cs[i])]] :
     cs \in [1..Len(transactions) -> {allowance, bill, other, giving}]}

\* the records the plan file now holds, when only categories changed
plan_records == {recs \in recategorized : plan_content(recs) = files[PLAN]}

\* the category and notes of a record as the plan file spells them
category_notes(txn) == <<"c","a","t","e","g","o","r","y",":"," ","\"">> \o txn.category.v \o <<"\"",","," ","n","o","t","e","s",":"," ","\"">> \o txn.notes.v \o <<"\"">>

\* the texts the running script replaces
replaced_texts ==
    IF script = "fix_transaction_categories"
    THEN {<<"c","a","t","e","g","o","r","y",":"," ","\"">> \o allowance \o <<"\"",","," ","n","o","t","e","s",":"," ","\"">> \o <<"H","o","u","s","e"," ","K","e","e","p">> \o <<"\"">>, <<"c","a","t","e","g","o","r","y",":"," ","\"">> \o other \o <<"\"",","," ","n","o","t","e","s",":"," ","\"">> \o <<"O","n","e","-","O","f","f"," ","G","i","v","i","n","g">> \o <<"\"">>}
    ELSE {fix_other_categories_replacements[k][1] :
          k \in 1..Len(fix_other_categories_replacements)}

\* C24: a second run of fix_transaction_categories.py or of
\* fix_other_categories.py leaves the plan file as the first run left it.
C24_SecondRunChangesNothing ==
    [][(Next_fixers /\ nrows >= 1) => files' = files]_vars

C24_Witness ==
    /\ nrows = 2
    /\ files[PLAN] # plan_content(transactions)

\* C25: after fix_transaction_categories.py every record whose notes are
\* exactly "House Keep" has category "bill", whatever it had before.
C25_HouseKeepIsBill ==
    (script = "fix_transaction_categories" /\ nrows >= 1) =>
        \A recs \in plan_records : \A i \in 1..Len(recs) :
            recs[i].notes.v = <<"H","o","u","s","e"," ","K","e","e","p">> => recs[i].category.v = bill

\* C26: after fix_transaction_categories.py a record that had category
\* "other" and notes "One-Off Giving (Christmas)" has category "bill".
C26_OneOffChristmasIsBill ==
    (script = "fix_transaction_categories" /\ nrows >= 1) =>
        \A recs \in plan_records : \A i \in 1..Len(recs) :
            (transactions[i].category.v = other /\ transactions[i].notes.v = <<"O","n","e","-","O","f","f"," ","G","i","v","i","n","g"," ","(","C","h","r","i","s","t","m","a","s",")">>)
                => recs[i].category.v = bill

\* C27: after fix_other_categories.py no record of the plan file has
\* category "other".
C27_NoOtherLeft ==
    (script = "fix_other_categories" /\ nrows >= 1) =>
        \A recs \in plan_records : \A i \in 1..Len(recs) : recs[i].category.v # other

C29_EveryEntryTakesEffect ==
    script = "extract_corrected" =>
        \A i \in 1..Len(transactions) : \A k \in 1..Len(bills_schedule_map) :
            (/\ transactions[i].type = Str(outflow)
             /\ str_contains(bills_schedule_map_lower[k], str_lower(transactions[i].label.v)))
                => transactions[i].category = Str(bills_schedule_map[k][2])

\* C30: the budget constants of verify_variance.py agree with the Excel
\* totals it prints: the bill items sum to the FIXED total, the giving items
\* to the GIVING total, and budgets["bill"] and budgets["giving"] equal them.
C30_BudgetsMatchExcel ==
    (script = "verify_variance" /\ pc = "done") =>
        /\ verify_variance_bill_total = dict_get(verify_variance_excel_budgets, <<"F","I","X","E","D"," ","(","b","i","l","l","s",")">>, 0)
        /\ verify_variance_giving_total = dict_get(verify_variance_excel_budgets, <<"G","I","V","I","N","G">>, 0)
        /\ dict_get(verify_variance_budgets, bill, 0) = dict_get(verify_variance_excel_budgets, <<"F","I","X","E","D"," ","(","b","i","l","l","s",")">>, 0)
        /\ dict_get(verify_variance_budgets, giving, 0) = dict_get(verify_variance_excel_budgets, <<"G","I","V","I","N","G">>, 0)

\* the items sum to the budgets the report uses, not to the Excel totals
C30_BudgetsAreItemTotals ==
    (script = "verify_variance" /\ pc = "done") =>
        /\ verify_variance_bill_total = 1880
        /\ verify_variance_giving_total = 725
        /\ dict_get(verify_variance_budgets, bill, 0) = verify_variance_bill_total
        /\ dict_get(verify_variance_budgets, giving, 0) = verify_variance_giving_total

====
